---- MODULE Spec2Model ----
(***************************************************************************)
(* Vision-board graph engine: nodes, typed edges, status gate, node        *)
(* deletion with re-parenting, blitzes, over the vision.* tables.          *)
(*                                                                         *)
(* The store is modelled with the constraints the schema declares          *)
(* (unique_vision_edge, the ON DELETE CASCADE foreign keys) and nothing    *)
(* more.  Handlers are given twice: as one atomic action each (requests    *)
(* processed one at a time), and split at their awaits (requests of two    *)
(* callers interleaved).  Both are built from the same operators.          *)
(***************************************************************************)
EXTENDS Integers, Sequences, FiniteSets, TLC

\* ------------------------------------------------------------------ bounds
MaxLog == 3
MaxGraphEdges == 3

NodeIds == {1, 2, 3, 4}
Sessions == {"s1", "s2"}
\* Nodes 1..3 were created in session s1, the others in s2.
SessionOf(n) == IF n <= 3 THEN "s1" ELSE "s2"

VALID_EDGE_TYPES == {"dependency", "association", "hierarchy", "sequence"}
VALID_STATUSES == {"pending", "in_progress", "completed", "blocked", "cancelled"}

Procs == {"p1", "p2"}

VARIABLES
  nodes,        \* ids of the rows of vision.nodes
  status,       \* nodes.status, per node id
  completedAt,  \* nodes.completed_at, per node id: "null" or "set"
  edges,        \* rows of vision.edges: [session, source, target, type]
  log,          \* rows of vision.activity_log, oldest first
  resp,         \* the last response sent: [op, code, unmet]
  pc,           \* per caller: the await its request is suspended at
  loc,          \* per caller: the request's local variables
  query,        \* the last read-only computation and its result
  label,        \* nodes.label, per node id
  blitzes,      \* rows of vision.blitzes, per blitz id
  priority,     \* nodes.priority, per node id
  auditDown,    \* TRUE while the store refuses inserts into activity_log
  fab           \* the QuickCaptureFab widget: its state, the calls it made

vars ==
  <<nodes, status, completedAt, edges, log, resp, pc, loc, query, label, blitzes,
    priority, auditDown, fab>>

\* ------------------------------------------------------------------ store
Edge(s, a, b, t) == [session |-> s, source |-> a, target |-> b, type |-> t]
EdgeKey(e) == <<e.session, e.source, e.target>>

\* Mutant: uniqueness keyed by the edge type as well.
UniqueViolationPerType(E, row) == row \in E

\* unique_vision_edge UNIQUE (session_id, source_node_id, target_node_id)
UniqueViolation(E, row) == \E e \in E : EdgeKey(e) = EdgeKey(row)

\* source_node_id / target_node_id REFERENCES vision.nodes(id)
ForeignKeyOk(N, row) == row.source \in N /\ row.target \in N

\* db.edges().insert(row): the error code, or "ok"
InsertResult(N, E, row) ==
  IF UniqueViolation(E, row) THEN "23505"
  ELSE IF ~ForeignKeyOk(N, row) THEN "23503"
  ELSE "ok"

\* db.edges().upsert(rows, {onConflict: 'session_id,source_node_id,target_node_id'}):
\* one statement; a conflicting row is updated with the columns sent, and a
\* foreign-key failure of any row fails the whole statement.
Upsert(N, E, rows) ==
  IF \A r \in rows : ForeignKeyOk(N, r)
  THEN {e \in E : \A r \in rows : EdgeKey(r) # EdgeKey(e)} \cup rows
  ELSE E

\* Mutant: the cascade declared on source_node_id only.
CascadeSourceOnly(E, n) == {e \in E : e.source # n}

\* ON DELETE CASCADE of the two node references of vision.edges
Cascade(E, n) == {e \in E : e.source # n /\ e.target # n}

\* Mutant: the insert into activity_log never fails.
logActivityAlways(L, action, targetType) ==
  Append(L, [action |-> action, target_type |-> targetType])

\* logActivity: one row appended to activity_log. The function awaits the
\* insert and does not look at the error it resolves to: when the store
\* refuses the row nothing is appended and the caller is not told.
logActivity(L, action, targetType) ==
  IF auditDown THEN L
  ELSE Append(L, [action |-> action, target_type |-> targetType])

Response(op, code) == [op |-> op, code |-> code, unmet |-> {}]

NoQuery == [fn |-> "none"]
Idle == [p \in Procs |-> "idle"]
NoLoc == [p \in Procs |-> [op |-> "none"]]

\* vision.blitzes: the ids the store hands out, in this order, and the rows.
\* An id whose row was never inserted has status "none"; ids are not reused.
BlitzIds == {1, 2}
VALID_BLITZ_STATUSES == {"planned", "active", "completed", "abandoned"}

Blitz(s, st, started, completed, members) ==
  [session |-> s, status |-> st, started_at |-> started,
   completed_at |-> completed, node_ids |-> members]

NoBlitz == Blitz("none", "none", "null", "null", {})
NoBlitzes == [b \in BlitzIds |-> NoBlitz]

\* The labels a request can carry; "" is the empty string.
Labels == {"a", "b", ""}

\* ------------------------------------------------------------- CycleGuard
SetToSeq(S) ==
  LET RECURSIVE ToSeq(_)
      ToSeq(T) == IF T = {} THEN <<>>
                  ELSE LET x == CHOOSE y \in T : \A z \in T : y <= z
                       IN <<x>> \o ToSeq(T \ {x})
  IN ToSeq(S)

\* Mutant: only the direct edge target -> source is looked for.
wouldCreateCycleDirect(E, sessionId, sourceNodeId, targetNodeId) ==
  \E e \in E : /\ e.session = sessionId /\ e.type = "dependency"
               /\ e.source = targetNodeId /\ e.target = sourceNodeId

\* wouldCreateCycle: breadth-first search from targetNodeId over the
\* dependency edges of the session, looking for sourceNodeId.
wouldCreateCycle(E, sessionId, sourceNodeId, targetNodeId) ==
  LET allDepEdges == {e \in E : e.session = sessionId /\ e.type = "dependency"}
      adj(n) == {e.target : e \in {d \in allDepEdges : d.source = n}}
      RECURSIVE bfs(_, _)
      bfs(queue, visited) ==
        IF queue = <<>> THEN FALSE
        ELSE LET current == Head(queue)
                 neighbors == adj(current)
                 fresh == neighbors \ visited
             IN IF sourceNodeId \in neighbors THEN TRUE
                ELSE bfs(Tail(queue) \o SetToSeq(fresh), visited \cup fresh)
  IN IF allDepEdges = {} THEN FALSE
     ELSE bfs(<<targetNodeId>>, {targetNodeId})

\* ------------------------------------------------- handlers, one at a time
\* Mutant: the session filter of the node lookup dropped.
NodeInAnySession(N, id, s) == id \in N

\* SELECT id FROM nodes WHERE id = .. AND session_id = .. (.single())
NodeInSession(N, id, s) == id \in N /\ SessionOf(id) = s

\* Mutant: the self-reference test dropped.
SelfReferenceNever(a, b) == FALSE

SelfReference(a, b) == a = b

\* Mutants: the cycle check skipped; the cycle check run for every type.
NeedsCycleCheckNever(t) == FALSE
NeedsCycleCheckAlways(t) == TRUE

NeedsCycleCheck(t) == t = "dependency"

Budget == Len(log) < MaxLog

\* POST /api/vision/edges: the response the handler gives to a request
\* that finds nodes N and edges E in the store.
CreateEdgeCode(N, E, s, a, b, t) ==
  IF SelfReference(a, b) THEN "SelfLoop"
  ELSE IF t \notin VALID_EDGE_TYPES THEN "InvalidEdgeType"
  ELSE IF ~(NodeInSession(N, a, s) /\ NodeInSession(N, b, s)) THEN "NodeNotFound"
  ELSE IF NeedsCycleCheck(t) /\ wouldCreateCycle(E, s, a, b) THEN "CycleDetected"
  ELSE LET res == InsertResult(N, E, Edge(s, a, b, t))
       IN IF res = "23505" THEN "DuplicateEdge"
          ELSE IF res # "ok" THEN "Failed"
          ELSE "Created"

\* POST /api/vision/edges
CreateEdge(s, a, b, t) ==
  LET code == CreateEdgeCode(nodes, edges, s, a, b, t)
  IN /\ pc = Idle
     /\ resp' = Response("createEdge", code)
     /\ UNCHANGED <<nodes, status, completedAt, pc, loc, query, label, blitzes, priority,
                 auditDown, fab>>
     /\ IF code = "Created"
        THEN /\ Budget
             /\ edges' = edges \cup {Edge(s, a, b, t)}
             /\ log' = logActivity(log, "connect", "edge")
        ELSE UNCHANGED <<edges, log>>

\* DELETE /api/vision/edges?id=..   (key names the row, or no row)
DeleteEdgeCode(E, key) ==
  IF ~\E e \in E : EdgeKey(e) = key THEN "EdgeNotFound" ELSE "Deleted"

DeleteEdge(key) ==
  LET code == DeleteEdgeCode(edges, key)
  IN /\ pc = Idle
     /\ resp' = Response("deleteEdge", code)
     /\ UNCHANGED <<nodes, status, completedAt, pc, loc, query, label, blitzes, priority,
                 auditDown, fab>>
     /\ IF code = "Deleted"
        THEN /\ Budget
             /\ edges' = {e \in edges : EdgeKey(e) # key}
             /\ log' = logActivity(log, "disconnect", "edge")
        ELSE UNCHANGED <<edges, log>>

\* Mutant: parents joined to children whatever the types.
ReparentMatchAlways(parent, child) == TRUE

\* The rows DELETE /api/vision/nodes/[id] upserts: every parent joined to
\* every child through edges of the same type.
ReparentMatch(parent, child) == parent.type = child.type

\* Mutant: the rows lead from the child to the parent.
ReparentRowsReversed(s, parentEdges, childEdges) ==
  {Edge(s, pr[2].target, pr[1].source, pr[1].type) :
     pr \in {x \in parentEdges \X childEdges : ReparentMatch(x[1], x[2])}}

ReparentRows(s, parentEdges, childEdges) ==
  {Edge(s, pr[1].source, pr[2].target, pr[1].type) :
     pr \in {x \in parentEdges \X childEdges : ReparentMatch(x[1], x[2])}}

ParentEdges(E, id) == {e \in E : e.target = id}
ChildEdges(E, id) == {e \in E : e.source = id}

\* The edges after the upsert of the re-parenting rows, if there are any.
Reparented(N, E, s, parentEdges, childEdges) ==
  LET newEdges == ReparentRows(s, parentEdges, childEdges)
  IN IF newEdges # {} THEN Upsert(N, E, newEdges) ELSE E

\* The store's edges once DELETE /api/vision/nodes/[id] has run on node id.
DeleteNodeEdges(N, E, id) ==
  Cascade(Reparented(N, E, SessionOf(id), ParentEdges(E, id), ChildEdges(E, id)), id)

DeleteNodeCode(N, id) == IF id \notin N THEN "NodeNotFound" ELSE "Deleted"

\* DELETE /api/vision/nodes/[id]
DeleteNodeHandler(id) ==
  LET code == DeleteNodeCode(nodes, id)
  IN /\ pc = Idle
     /\ resp' = Response("deleteNode", code)
     /\ UNCHANGED <<status, completedAt, pc, loc, query, label, blitzes, priority,
                 auditDown, fab>>
     /\ IF code = "Deleted"
        THEN /\ edges' = DeleteNodeEdges(nodes, edges, id)
             /\ nodes' = nodes \ {id}
             /\ log' = logActivity(log, "delete", "node")
        ELSE UNCHANGED <<nodes, edges, log>>

\* The same, while the audit log has room for its row.
DeleteNode(id) ==
  /\ DeleteNodeCode(nodes, id) = "Deleted" => Budget
  /\ DeleteNodeHandler(id)

\* Mutant: the gate's edge query without its edge_type filter.
DepSourcesAnyType(E, id) == {e.source : e \in {d \in E : d.target = id}}

\* The hard-dependency gate of PATCH /api/vision/nodes/[id]/status
DepSources(E, id) ==
  {e.source : e \in {d \in E : d.target = id /\ d.type = "dependency"}}

\* lines 52-56: the nodes among depNodeIds whose status is not completed
UnmetAmong(N, st, depNodeIds) == {n \in depNodeIds \cap N : st[n] # "completed"}

Unmet(N, st, E, id) == UnmetAmong(N, st, DepSources(E, id))

\* Mutants: the gate skipped; the gate run for every new status.
GateNever(newStatus) == FALSE
GateAlways(newStatus) == TRUE

GateApplies(newStatus) == newStatus = "completed"

SetNodeStatusCode(N, st, E, id, newStatus) ==
  IF newStatus \notin VALID_STATUSES THEN "InvalidStatus"
  ELSE IF id \notin N THEN "NodeNotFound"
  ELSE IF GateApplies(newStatus) /\ Unmet(N, st, E, id) # {} THEN "UnmetDependencies"
  ELSE "Updated"

\* lines 76-82: completed_at is sent with the update when the new status is
\* completed, or when the status read at lines 71-74 was completed.
CompletedAtUpdate(cAt, id, newStatus, current) ==
  IF newStatus = "completed" THEN [cAt EXCEPT ![id] = "set"]
  ELSE IF current = "completed" THEN [cAt EXCEPT ![id] = "null"]
  ELSE cAt

\* PATCH /api/vision/nodes/[id]/status
SetNodeStatus(id, newStatus) ==
  LET code == SetNodeStatusCode(nodes, status, edges, id, newStatus)
  IN /\ pc = Idle
     /\ resp' = [op |-> "setNodeStatus", code |-> code,
                 unmet |-> IF code = "UnmetDependencies"
                           THEN Unmet(nodes, status, edges, id) ELSE {}]
     /\ UNCHANGED <<nodes, edges, pc, loc, query, label, blitzes, priority, auditDown, fab>>
     /\ IF code = "Updated"
        THEN /\ Budget
             /\ status' = [status EXCEPT ![id] = newStatus]
             /\ completedAt' = CompletedAtUpdate(completedAt, id, newStatus, status[id])
             /\ log' = logActivity(log, "status_change", "node")
        ELSE UNCHANGED <<status, completedAt, log>>

\* ------------------------------------------------------------------ blitzes
\* Mutant: the session filter of the active-blitz query dropped.
ActiveInAnySession(B, s) == {b \in BlitzIds : B[b].status = "active"}

\* SELECT id, title FROM blitzes WHERE session_id = s AND status = 'active'
ActiveIn(B, s) == {b \in BlitzIds : B[b].session = s /\ B[b].status = "active"}

BlitzExists(B, id) == B[id].status \in VALID_BLITZ_STATUSES

\* The ids not handed out yet, and the one the next insert gets.
FreshBlitzes(B) == {b \in BlitzIds : B[b].status = "none"}
NextBlitzId(B) == CHOOSE b \in FreshBlitzes(B) : \A c \in FreshBlitzes(B) : b <= c

BlitzResponse(op, code, existing) ==
  [op |-> op, code |-> code, unmet |-> {}, active_blitz |-> existing]

\* The member lists and titles a request can carry.
MemberChoices == {{}, {1}}
Titles == {"t", ""}

\* POST /api/vision/blitzes: what the handler answers to a request for
\* session s with the given title and status ("undef": no status sent).
CreateBlitzValidation(s, title, st) ==
  LET statusSent == IF st \in {"undef", ""} THEN "planned" ELSE st
  IN IF title = "" THEN "TitleRequired"
     ELSE IF statusSent \notin VALID_BLITZ_STATUSES THEN "InvalidStatus"
     ELSE IF s \notin Sessions THEN "SessionNotFound"
     ELSE "ok"

CreateBlitzCode(B, s, title, st) ==
  IF CreateBlitzValidation(s, title, st) # "ok" THEN CreateBlitzValidation(s, title, st)
  ELSE IF st = "active" /\ ActiveIn(B, s) # {} THEN "BlitzAlreadyActive"
  ELSE "Created"

\* lines 111-121: the row inserted
NewBlitz(s, st, members) ==
  LET statusSent == IF st \in {"undef", ""} THEN "planned" ELSE st
  IN Blitz(s, statusSent, IF statusSent = "active" THEN "set" ELSE "null", "null", members)

\* POST /api/vision/blitzes
CreateBlitz(s, title, st, members) ==
  LET code == CreateBlitzCode(blitzes, s, title, st)
  IN /\ pc = Idle
     /\ UNCHANGED <<nodes, status, completedAt, edges, pc, loc, query, label, priority,
                 auditDown, fab>>
     /\ IF code = "Created"
        THEN /\ Budget
             /\ FreshBlitzes(blitzes) # {}
             /\ blitzes' = [blitzes EXCEPT ![NextBlitzId(blitzes)] = NewBlitz(s, st, members)]
             /\ log' = logActivity(log, IF NewBlitz(s, st, members).status = "active"
                                        THEN "blitz_start" ELSE "create", "blitz")
             /\ resp' = BlitzResponse("createBlitz", code, 0)
        ELSE /\ UNCHANGED <<blitzes, log>>
             /\ IF code = "BlitzAlreadyActive"
                THEN \E x \in ActiveIn(blitzes, s) :
                       resp' = BlitzResponse("createBlitz", code, x)
                ELSE resp' = BlitzResponse("createBlitz", code, 0)

\* The request bodies of PATCH /api/vision/blitzes/[id]: a status ("undef":
\* not sent) and, when members is TRUE, a member list.
BlitzPatches ==
  {patch \in [status : VALID_BLITZ_STATUSES \cup {"undef", "bogus", ""},
               members : BOOLEAN, node_ids : MemberChoices] :
     ~patch.members => patch.node_ids = {}}

\* lines 92-93: the update is an activation
Activates(current, patch) == patch.status = "active" /\ current.status # "active"

\* lines 55-90: the row must exist, the body must carry an allowed field,
\* and a status that is sent and not empty must be one of the four
UpdateBlitzValidation(B, id, patch) ==
  IF ~BlitzExists(B, id) THEN "BlitzNotFound"
  ELSE IF patch.status = "undef" /\ ~patch.members THEN "NoValidFields"
  ELSE IF patch.status \notin VALID_BLITZ_STATUSES \cup {"undef", ""} THEN "InvalidStatus"
  ELSE "ok"

\* PATCH /api/vision/blitzes/[id]: what the handler answers
UpdateBlitzCode(B, id, patch) ==
  IF UpdateBlitzValidation(B, id, patch) # "ok" THEN UpdateBlitzValidation(B, id, patch)
  ELSE IF Activates(B[id], patch) /\ ActiveIn(B, B[id].session) \ {id} # {}
  THEN "BlitzAlreadyActive"
  ELSE IF patch.status = "" THEN "Failed"
  ELSE "Updated"

\* lines 110-123: the row after the update, given the row read at lines 56-60
UpdatedBlitz(row, current, patch) ==
  [row EXCEPT
     !.status = IF patch.status = "undef" THEN @ ELSE patch.status,
     !.node_ids = IF patch.members THEN patch.node_ids ELSE @,
     !.started_at = IF Activates(current, patch) THEN "set" ELSE @,
     !.completed_at = IF patch.status \in {"completed", "abandoned"} THEN "set" ELSE @]

\* lines 130-139: the audit action
UpdateBlitzAction(current, patch) ==
  IF Activates(current, patch) THEN "blitz_start"
  ELSE IF patch.status \in {"completed", "abandoned"} /\ current.status = "active"
  THEN "blitz_end"
  ELSE "update"

\* PATCH /api/vision/blitzes/[id]
UpdateBlitz(id, patch) ==
  LET code == UpdateBlitzCode(blitzes, id, patch)
  IN /\ pc = Idle
     /\ UNCHANGED <<nodes, status, completedAt, edges, pc, loc, query, label, priority,
                 auditDown, fab>>
     /\ IF code = "Updated"
        THEN /\ Budget
             /\ blitzes' = [blitzes EXCEPT ![id] = UpdatedBlitz(blitzes[id], blitzes[id], patch)]
             /\ log' = logActivity(log, UpdateBlitzAction(blitzes[id], patch), "blitz")
             /\ resp' = BlitzResponse("updateBlitz", code, 0)
        ELSE /\ UNCHANGED <<blitzes, log>>
             /\ IF code = "BlitzAlreadyActive"
                THEN \E x \in ActiveIn(blitzes, blitzes[id].session) \ {id} :
                       resp' = BlitzResponse("updateBlitz", code, x)
                ELSE resp' = BlitzResponse("updateBlitz", code, 0)

\* ---------------------------------------------------------- QuickCaptureFab
\* The submit events handled in one behaviour.
MaxSubmits == 2

\* The texts typed into the title input, and String.prototype.trim on them.
FabTitles == {"", " ", "a", " a "}
Trim(str) == IF str \in {"", " "} THEN "" ELSE "a"

\* The widget after mounting: the four useState values (lines 22-25), the
\* existingNodes prop, and what it has done so far: the submit events
\* handled, the bodies POSTed, the request awaiting its response, the way
\* the last request ended, and the arguments of the onNodeCreated and of the
\* onError calls.
FabClosed(existingNodes) ==
  [isOpen |-> FALSE, title |-> "", parentId |-> "", isSubmitting |-> FALSE,
   existingNodes |-> existingNodes,
   submits |-> 0, fetchCalls |-> <<>>, pending |-> <<>>, res |-> "none",
   onNodeCreated |-> <<>>, onError |-> <<>>]

\* line 132: the floating button toggles the popover
FabClick ==
  /\ fab' = [fab EXCEPT !.isOpen = ~@]
  /\ UNCHANGED <<nodes, status, completedAt, edges, log, resp, pc, loc, query, label,
                 blitzes, priority, auditDown>>

\* lines 35-49 and 83-87: a click outside the open popover, or Escape
FabDismiss ==
  /\ fab.isOpen
  /\ fab' = [fab EXCEPT !.isOpen = FALSE]
  /\ UNCHANGED <<nodes, status, completedAt, edges, log, resp, pc, loc, query, label,
                 blitzes, priority, auditDown>>

\* lines 93-102: the input is rendered while the popover is open and is
\* disabled while submitting
FabSetTitle(str) ==
  /\ fab.isOpen /\ ~fab.isSubmitting
  /\ fab' = [fab EXCEPT !.title = str]
  /\ UNCHANGED <<nodes, status, completedAt, edges, log, resp, pc, loc, query, label,
                 blitzes, priority, auditDown>>

\* lines 103-118: the select is rendered when there are existing nodes
FabSetParentId(id) ==
  /\ fab.isOpen /\ ~fab.isSubmitting
  /\ id \in fab.existingNodes \cup {""}
  /\ fab.existingNodes # {}
  /\ fab' = [fab EXCEPT !.parentId = id]
  /\ UNCHANGED <<nodes, status, completedAt, edges, log, resp, pc, loc, query, label,
                 blitzes, priority, auditDown>>

\* Mutant: the body always carries parentId.
FabBodyWithParent(title, parentId) == [title |-> Trim(title), parentId |-> parentId]

\* lines 58-59: the body of the POST
FabBody(title, parentId) ==
  IF parentId # "" THEN [title |-> Trim(title), parentId |-> parentId]
  ELSE [title |-> Trim(title)]

\* handleSubmit up to the fetch, lines 51-65: the submit event of the form
handleSubmit ==
  /\ fab.isOpen
  /\ fab.submits < MaxSubmits
  /\ IF Trim(fab.title) = "" \/ fab.isSubmitting
     THEN fab' = [fab EXCEPT !.submits = @ + 1]
     ELSE fab' = [fab EXCEPT !.submits = @ + 1,
                             !.isSubmitting = TRUE,
                             !.fetchCalls = Append(@, FabBody(fab.title, fab.parentId)),
                             !.pending = <<FabBody(fab.title, fab.parentId)>>]
  /\ UNCHANGED <<nodes, status, completedAt, edges, log, resp, pc, loc, query, label,
                 blitzes, priority, auditDown>>

\* The ways the fetch can end: an ok response with a node, an ok response
\* whose body is no JSON, a response that is not ok, a request rejected with
\* an Error, a request rejected with a value that is no Error.
FetchOutcomes == {"ok", "badJson", "notOk", "rejected", "rejectedValue"}

\* What the try block throws for an outcome: line 68 for a response that is
\* not ok, the rejection of fetch or of res.json() otherwise.
Thrown(outcome) == [isError |-> outcome # "rejectedValue", message |-> outcome]

\* Mutant: the caught value is handed on as it is.
ToErrorAsIs(err) == err

\* line 77: err instanceof Error ? err : new Error(String(err))
ToError(err) == IF err.isError THEN err ELSE [isError |-> TRUE, message |-> err.message]

\* The node the endpoint returns for a body.
CreatedNode(body, n) == [id |-> n, body |-> body]

\* handleSubmit from the response on, lines 67-80
FetchSettled(outcome) ==
  /\ fab.pending # <<>>
  /\ IF outcome = "ok"
     THEN fab' = [fab EXCEPT
                    !.onNodeCreated =
                       Append(@, CreatedNode(fab.pending[1], Len(fab.fetchCalls))),
                    !.title = "", !.parentId = "", !.isOpen = FALSE,
                    !.isSubmitting = FALSE, !.pending = <<>>, !.res = outcome]
     ELSE fab' = [fab EXCEPT !.onError = Append(@, ToError(Thrown(outcome))),
                             !.isSubmitting = FALSE, !.pending = <<>>, !.res = outcome]
  /\ UNCHANGED <<nodes, status, completedAt, edges, log, resp, pc, loc, query, label,
                 blitzes, priority, auditDown>>

\* ------------------------------------------------------------ specifications
Init ==
  /\ nodes = NodeIds
  /\ status = [n \in NodeIds |-> "pending"]
  /\ completedAt = [n \in NodeIds |-> "null"]
  /\ edges = {}
  /\ log = <<>>
  /\ resp = Response("none", "none")
  /\ pc = Idle
  /\ loc = NoLoc
  /\ query = NoQuery
  /\ label = [n \in NodeIds |-> "a"]
  /\ blitzes = NoBlitzes
  /\ priority = [n \in NodeIds |-> 0]
  /\ auditDown = FALSE
  /\ fab = FabClosed({})

EdgeKeys == {<<s, a, b>> : s \in Sessions, a \in NodeIds, b \in NodeIds}

CreateEdgeRequest ==
  \E s \in Sessions, a \in NodeIds, b \in NodeIds, t \in VALID_EDGE_TYPES \cup {"bogus"} :
    CreateEdge(s, a, b, t)

DeleteEdgeRequest == \E key \in EdgeKeys : DeleteEdge(key)

DeleteNodeRequest == \E id \in NodeIds : DeleteNode(id)

SetNodeStatusRequest ==
  \E id \in NodeIds, st \in VALID_STATUSES \cup {"bogus"} : SetNodeStatus(id, st)

\* Requests on the graph, processed one at a time.
NextGraph == CreateEdgeRequest \/ DeleteEdgeRequest \/ DeleteNodeRequest

SpecGraph == Init /\ [][NextGraph]_vars

\* Status changes over dependency and association edges, one at a time.
CreateLinkRequest ==
  \E a \in NodeIds, b \in NodeIds, t \in {"dependency", "association"} :
    CreateEdge(SessionOf(a), a, b, t)

NextStatus == SetNodeStatusRequest \/ CreateLinkRequest

SpecStatus == Init /\ [][NextStatus]_vars

\* Node deletions, one at a time.
DeleteNodeOnGraph == \E id \in NodeIds : DeleteNodeHandler(id)

NextReparent == DeleteNodeOnGraph

\* Blitz requests, one at a time.
CreateBlitzRequest ==
  \E s \in Sessions \cup {"s0"}, title \in Titles,
     st \in VALID_BLITZ_STATUSES \cup {"undef", "bogus"}, members \in MemberChoices :
    CreateBlitz(s, title, st, members)

UpdateBlitzRequest == \E id \in BlitzIds, patch \in BlitzPatches : UpdateBlitz(id, patch)

NextBlitz == CreateBlitzRequest \/ UpdateBlitzRequest

SpecBlitz == Init /\ [][NextBlitz]_vars

\* --------------------------------------- handlers of two callers, interleaved
\* Each caller sends one request.  A handler runs from one await to the next
\* in one step; loc[p] holds what the handler of caller p has read so far.
Finish(p) == /\ pc' = [pc EXCEPT ![p] = "done"]
             /\ loc' = [loc EXCEPT ![p] = [op |-> "none"]]

\* A DELETE /api/vision/edges that has read its row and not yet deleted it
\* names the row by id: once the row is gone its delete matches nothing,
\* also when a new row joins the same nodes.
Invalidate(L, gone) ==
  [q \in Procs |->
     IF L[q].op = "deleteEdge" /\ L[q].key \in {EdgeKey(e) : e \in gone}
     THEN [L[q] EXCEPT !.live = FALSE]
     ELSE L[q]]

\* POST /api/vision/edges, lines 72-114: validation, then the source lookup
CE_Begin(p, s, a, b, t) ==
  /\ pc[p] = "idle"
  /\ UNCHANGED <<nodes, status, completedAt, edges, log, query, label, blitzes, priority,
                 auditDown, fab>>
  /\ IF SelfReference(a, b)
     THEN resp' = Response("createEdge", "SelfLoop") /\ Finish(p)
     ELSE IF t \notin VALID_EDGE_TYPES
     THEN resp' = Response("createEdge", "InvalidEdgeType") /\ Finish(p)
     ELSE /\ pc' = [pc EXCEPT ![p] = "ce_target"]
          /\ loc' = [loc EXCEPT ![p] =
                       [op |-> "createEdge", session |-> s, source |-> a, target |-> b,
                        type |-> t, sourceNode |-> NodeInSession(nodes, a, s)]]
          /\ UNCHANGED resp

\* lines 116-139: the target lookup
CE_Target(p) ==
  /\ pc[p] = "ce_target"
  /\ UNCHANGED <<nodes, status, completedAt, edges, log, query, label, blitzes, priority,
                 auditDown, fab>>
  /\ IF ~(loc[p].sourceNode /\ NodeInSession(nodes, loc[p].target, loc[p].session))
     THEN resp' = Response("createEdge", "NodeNotFound") /\ Finish(p)
     ELSE /\ pc' = [pc EXCEPT ![p] = IF NeedsCycleCheck(loc[p].type)
                                     THEN "ce_cycle" ELSE "ce_insert"]
          /\ UNCHANGED <<resp, loc>>

\* lines 131-139 and 267-300: the read of the dependency edges and the search
CE_Cycle(p) ==
  /\ pc[p] = "ce_cycle"
  /\ UNCHANGED <<nodes, status, completedAt, edges, log, query, label, blitzes, priority,
                 auditDown, fab>>
  /\ IF wouldCreateCycle(edges, loc[p].session, loc[p].source, loc[p].target)
     THEN resp' = Response("createEdge", "CycleDetected") /\ Finish(p)
     ELSE pc' = [pc EXCEPT ![p] = "ce_insert"] /\ UNCHANGED <<resp, loc>>

\* lines 141-161: the insert
CE_Insert(p) ==
  LET row == Edge(loc[p].session, loc[p].source, loc[p].target, loc[p].type)
      res == InsertResult(nodes, edges, row)
  IN /\ pc[p] = "ce_insert"
     /\ UNCHANGED <<nodes, status, completedAt, log, query, label, blitzes, priority,
                 auditDown, fab>>
     /\ IF res = "23505"
        THEN resp' = Response("createEdge", "DuplicateEdge") /\ Finish(p)
                     /\ UNCHANGED edges
        ELSE IF res # "ok"
        THEN resp' = Response("createEdge", "Failed") /\ Finish(p) /\ UNCHANGED edges
        ELSE /\ edges' = edges \cup {row}
             /\ pc' = [pc EXCEPT ![p] = "ce_log"]
             /\ UNCHANGED <<resp, loc>>

\* lines 163-176: the audit row and the response
CE_Log(p) ==
  /\ pc[p] = "ce_log"
  /\ log' = logActivity(log, "connect", "edge")
  /\ resp' = Response("createEdge", "Created")
  /\ Finish(p)
  /\ UNCHANGED <<nodes, status, completedAt, edges, query, label, blitzes, priority,
                 auditDown, fab>>

\* DELETE /api/vision/edges, lines 190-214: the read of the row
DE_Begin(p, key) ==
  /\ pc[p] = "idle"
  /\ UNCHANGED <<nodes, status, completedAt, edges, log, query, label, blitzes, priority,
                 auditDown, fab>>
  /\ IF DeleteEdgeCode(edges, key) = "EdgeNotFound"
     THEN resp' = Response("deleteEdge", "EdgeNotFound") /\ Finish(p)
     ELSE /\ pc' = [pc EXCEPT ![p] = "de_delete"]
          /\ loc' = [loc EXCEPT ![p] = [op |-> "deleteEdge", key |-> key, live |-> TRUE]]
          /\ UNCHANGED resp

\* lines 216-223: the delete by id
DE_Delete(p) ==
  LET gone == IF loc[p].live THEN {e \in edges : EdgeKey(e) = loc[p].key} ELSE {}
  IN /\ pc[p] = "de_delete"
     /\ edges' = edges \ gone
     /\ pc' = [pc EXCEPT ![p] = "de_log"]
     /\ loc' = Invalidate(loc, gone)
     /\ UNCHANGED <<nodes, status, completedAt, log, resp, query, label, blitzes, priority,
                 auditDown, fab>>

\* lines 225-238
DE_Log(p) ==
  /\ pc[p] = "de_log"
  /\ log' = logActivity(log, "disconnect", "edge")
  /\ resp' = Response("deleteEdge", "Deleted")
  /\ Finish(p)
  /\ UNCHANGED <<nodes, status, completedAt, edges, query, label, blitzes, priority,
                 auditDown, fab>>

\* DELETE /api/vision/nodes/[id], lines 104-121: the read of the node
DN_Begin(p, id) ==
  /\ pc[p] = "idle"
  /\ UNCHANGED <<nodes, status, completedAt, edges, log, query, label, blitzes, priority,
                 auditDown, fab>>
  /\ IF DeleteNodeCode(nodes, id) = "NodeNotFound"
     THEN resp' = Response("deleteNode", "NodeNotFound") /\ Finish(p)
     ELSE /\ pc' = [pc EXCEPT ![p] = "dn_parents"]
          /\ loc' = [loc EXCEPT ![p] = [op |-> "deleteNode", id |-> id,
                                        parentEdges |-> {}, childEdges |-> {}]]
          /\ UNCHANGED resp

\* lines 125-127
DN_Parents(p) ==
  /\ pc[p] = "dn_parents"
  /\ loc' = [loc EXCEPT ![p].parentEdges = ParentEdges(edges, loc[p].id)]
  /\ pc' = [pc EXCEPT ![p] = "dn_children"]
  /\ UNCHANGED <<nodes, status, completedAt, edges, log, resp, query, label, blitzes, priority,
                 auditDown, fab>>

\* lines 130-150: the read of the child edges; the rows to upsert
DN_Children(p) ==
  LET childEdges == ChildEdges(edges, loc[p].id)
      newEdges == ReparentRows(SessionOf(loc[p].id), loc[p].parentEdges, childEdges)
  IN /\ pc[p] = "dn_children"
     /\ loc' = [loc EXCEPT ![p].childEdges = childEdges]
     /\ pc' = [pc EXCEPT ![p] = IF newEdges # {} THEN "dn_upsert" ELSE "dn_delete"]
     /\ UNCHANGED <<nodes, status, completedAt, edges, log, resp, query, label, blitzes, priority,
                 auditDown, fab>>

\* lines 150-155
DN_Upsert(p) ==
  /\ pc[p] = "dn_upsert"
  /\ edges' = Reparented(nodes, edges, SessionOf(loc[p].id),
                         loc[p].parentEdges, loc[p].childEdges)
  /\ pc' = [pc EXCEPT ![p] = "dn_delete"]
  /\ UNCHANGED <<nodes, status, completedAt, log, resp, loc, query, label, blitzes, priority,
                 auditDown, fab>>

\* lines 158-167: the delete of the node; the store cascades to its edges
DN_Delete(p) ==
  /\ pc[p] = "dn_delete"
  /\ nodes' = nodes \ {loc[p].id}
  /\ edges' = Cascade(edges, loc[p].id)
  /\ loc' = Invalidate(loc, edges \ Cascade(edges, loc[p].id))
  /\ pc' = [pc EXCEPT ![p] = "dn_log"]
  /\ UNCHANGED <<status, completedAt, log, resp, query, label, blitzes, priority,
                 auditDown, fab>>

\* lines 169-181
DN_Log(p) ==
  /\ pc[p] = "dn_log"
  /\ log' = logActivity(log, "delete", "node")
  /\ resp' = Response("deleteNode", "Deleted")
  /\ Finish(p)
  /\ UNCHANGED <<nodes, status, completedAt, edges, query, label, blitzes, priority,
                 auditDown, fab>>

NextRace ==
  \E p \in Procs :
    \/ \E s \in Sessions, a \in NodeIds, b \in NodeIds,
          t \in VALID_EDGE_TYPES \cup {"bogus"} : CE_Begin(p, s, a, b, t)
    \/ CE_Target(p)
    \/ CE_Cycle(p)
    \/ CE_Insert(p)
    \/ CE_Log(p)
    \/ \E key \in EdgeKeys : DE_Begin(p, key)
    \/ DE_Delete(p)
    \/ DE_Log(p)
    \/ \E id \in NodeIds : DN_Begin(p, id)
    \/ DN_Parents(p)
    \/ DN_Children(p)
    \/ DN_Upsert(p)
    \/ DN_Delete(p)
    \/ DN_Log(p)

\* The stores the two requests find: empty, or a chain 1 -> 2 -> 3 of two
\* edges that two earlier createEdge requests left.
SeedEdges ==
  {{}} \cup {{Edge("s1", 1, 2, t), Edge("s1", 2, 3, t)} : t \in {"dependency", "hierarchy"}}

InitRace ==
  /\ nodes = NodeIds
  /\ status = [n \in NodeIds |-> "pending"]
  /\ completedAt = [n \in NodeIds |-> "null"]
  /\ edges \in SeedEdges
  /\ log = [i \in 1..Cardinality(edges) |-> [action |-> "connect", target_type |-> "edge"]]
  /\ resp = Response("none", "none")
  /\ pc = Idle
  /\ loc = NoLoc
  /\ query = NoQuery
  /\ label = [n \in NodeIds |-> "a"]
  /\ blitzes = NoBlitzes
  /\ priority = [n \in NodeIds |-> 0]
  /\ auditDown = FALSE
  /\ fab = FabClosed({})

SpecRace == InitRace /\ [][NextRace]_vars

\* ------------------------------ node and status handlers, interleaved
\* PATCH /api/vision/nodes/[id]/status, lines 19-39: validation, then
\* verifyNodeOwnership
SS_Begin(p, id, newStatus) ==
  /\ pc[p] = "idle"
  /\ UNCHANGED <<nodes, status, completedAt, edges, log, query, label, blitzes, priority,
                 auditDown, fab>>
  /\ IF newStatus \notin VALID_STATUSES
     THEN resp' = Response("setNodeStatus", "InvalidStatus") /\ Finish(p)
     ELSE IF id \notin nodes
     THEN resp' = Response("setNodeStatus", "NodeNotFound") /\ Finish(p)
     ELSE /\ pc' = [pc EXCEPT ![p] = IF GateApplies(newStatus)
                                     THEN "ss_depedges" ELSE "ss_current"]
          /\ loc' = [loc EXCEPT ![p] =
                       [op |-> "setNodeStatus", id |-> id, status |-> newStatus,
                        depNodeIds |-> {}, current |-> "null"]]
          /\ UNCHANGED resp

\* lines 45-50: the read of the dependency edges that target the node
SS_DepEdges(p) ==
  LET depNodeIds == DepSources(edges, loc[p].id)
  IN /\ pc[p] = "ss_depedges"
     /\ loc' = [loc EXCEPT ![p].depNodeIds = depNodeIds]
     /\ pc' = [pc EXCEPT ![p] = IF depNodeIds # {} THEN "ss_depnodes" ELSE "ss_current"]
     /\ UNCHANGED <<nodes, status, completedAt, edges, log, resp, query, label, blitzes, priority,
                 auditDown, fab>>

\* lines 52-67: the read of the statuses of the sources
SS_DepNodes(p) ==
  LET unmet == UnmetAmong(nodes, status, loc[p].depNodeIds)
  IN /\ pc[p] = "ss_depnodes"
     /\ UNCHANGED <<nodes, status, completedAt, edges, log, query, label, blitzes, priority,
                 auditDown, fab>>
     /\ IF unmet # {}
        THEN /\ resp' = [op |-> "setNodeStatus", code |-> "UnmetDependencies",
                         unmet |-> unmet]
             /\ Finish(p)
        ELSE pc' = [pc EXCEPT ![p] = "ss_current"] /\ UNCHANGED <<resp, loc>>

\* lines 71-74: the read of the node's current status
SS_Current(p) ==
  /\ pc[p] = "ss_current"
  /\ loc' = [loc EXCEPT ![p].current =
               IF loc[p].id \in nodes THEN status[loc[p].id] ELSE "null"]
  /\ pc' = [pc EXCEPT ![p] = "ss_update"]
  /\ UNCHANGED <<nodes, status, completedAt, edges, log, resp, query, label, blitzes, priority,
                 auditDown, fab>>

\* lines 76-94: the update; it fails when the row is gone
SS_Update(p) ==
  LET id == loc[p].id
  IN /\ pc[p] = "ss_update"
     /\ UNCHANGED <<nodes, edges, log, query, label, blitzes, priority, auditDown, fab>>
     /\ IF id \notin nodes
        THEN /\ resp' = Response("setNodeStatus", "Failed") /\ Finish(p)
             /\ UNCHANGED <<status, completedAt>>
        ELSE /\ status' = [status EXCEPT ![id] = loc[p].status]
             /\ completedAt' =
                  CompletedAtUpdate(completedAt, id, loc[p].status, loc[p].current)
             /\ pc' = [pc EXCEPT ![p] = "ss_log"]
             /\ UNCHANGED <<resp, loc>>

\* lines 96-108
SS_Log(p) ==
  /\ pc[p] = "ss_log"
  /\ log' = logActivity(log, "status_change", "node")
  /\ resp' = Response("setNodeStatus", "Updated")
  /\ Finish(p)
  /\ UNCHANGED <<nodes, status, completedAt, edges, query, label, blitzes, priority,
                 auditDown, fab>>

\* The id the store gives to the next node of session s, if one is left.
FreshNodes(N, s) == {n \in NodeIds \ N : SessionOf(n) = s}
NextNodeId(N, s) == CHOOSE n \in FreshNodes(N, s) : \A m \in FreshNodes(N, s) : n <= m

\* POST /api/vision/nodes, lines 77-102: validation, then the session lookup
CN_Begin(p, s, l) ==
  /\ pc[p] = "idle"
  /\ UNCHANGED <<nodes, status, completedAt, edges, log, query, label, blitzes, priority,
                 auditDown, fab>>
  /\ IF l = ""
     THEN resp' = Response("createNode", "LabelRequired") /\ Finish(p)
     ELSE IF s \notin Sessions
     THEN resp' = Response("createNode", "SessionNotFound") /\ Finish(p)
     ELSE /\ pc' = [pc EXCEPT ![p] = "cn_insert"]
          /\ loc' = [loc EXCEPT ![p] = [op |-> "createNode", session |-> s, label |-> l]]
          /\ UNCHANGED resp

\* lines 104-122: the insert, with status pending and no completed_at
CN_Insert(p) ==
  LET s == loc[p].session
      id == NextNodeId(nodes, s)
  IN /\ pc[p] = "cn_insert"
     /\ FreshNodes(nodes, s) # {}
     /\ nodes' = nodes \cup {id}
     /\ status' = [status EXCEPT ![id] = "pending"]
     /\ completedAt' = [completedAt EXCEPT ![id] = "null"]
     /\ label' = [label EXCEPT ![id] = loc[p].label]
     /\ pc' = [pc EXCEPT ![p] = "cn_log"]
     /\ UNCHANGED <<edges, log, resp, loc, query, blitzes, priority, auditDown, fab>>

\* lines 124-133
CN_Log(p) ==
  /\ pc[p] = "cn_log"
  /\ log' = logActivity(log, "create", "node")
  /\ resp' = Response("createNode", "Created")
  /\ Finish(p)
  /\ UNCHANGED <<nodes, status, completedAt, edges, query, label, blitzes, priority,
                 auditDown, fab>>

\* The request bodies of PATCH /api/vision/nodes/[id]: label stands for the
\* allowed fields, status for the others; "undef" is a field not sent.
Patches == [label : Labels \cup {"undef"}, status : VALID_STATUSES \cup {"undef"}]

\* The bodies that also carry fields of the row that are not in the list.
FullPatches ==
  [label : {"b", "undef"}, status : {"completed", "pending", "undef"},
   completed_at : {"set", "undef"}, session_id : Sessions \cup {"undef"}]

\* Mutant: status is in the list.
allowedFieldsAndStatus == {"label", "status"}

\* lines 56-59: the list of fields a body may set (label stands for label,
\* description, node_type, priority, color, position_x, position_y, metadata
\* and due_date)
allowedFields == {"label"}

\* lines 60-65: the fields of the list that the body carries, with their
\* values
updates(patch) ==
  [f \in {g \in DOMAIN patch \cap allowedFields : patch[g] # "undef"} |-> patch[f]]

\* The names of the fields to update.
AllowedUpdates(patch) == DOMAIN updates(patch)

\* PATCH /api/vision/nodes/[id], lines 43-69: verifyNodeOwnership, then the
\* fields to update
UN_Begin(p, id, patch) ==
  /\ pc[p] = "idle"
  /\ UNCHANGED <<nodes, status, completedAt, edges, log, query, label, blitzes, priority,
                 auditDown, fab>>
  /\ IF id \notin nodes
     THEN resp' = Response("updateNode", "NodeNotFound") /\ Finish(p)
     ELSE IF AllowedUpdates(patch) = {}
     THEN resp' = Response("updateNode", "NoValidFields") /\ Finish(p)
     ELSE /\ pc' = [pc EXCEPT ![p] = "un_update"]
          /\ loc' = [loc EXCEPT ![p] = [op |-> "updateNode", id |-> id, patch |-> patch]]
          /\ UNCHANGED resp

\* lines 71-81: the update sets the columns named in updates; it fails when
\* the row is gone
UN_Update(p) ==
  LET id == loc[p].id
      u == updates(loc[p].patch)
  IN /\ pc[p] = "un_update"
     /\ UNCHANGED <<nodes, edges, log, query, blitzes, priority, auditDown, fab>>
     /\ IF id \notin nodes
        THEN /\ resp' = Response("updateNode", "Failed") /\ Finish(p)
             /\ UNCHANGED <<label, status, completedAt>>
        ELSE /\ label' = IF "label" \in DOMAIN u THEN [label EXCEPT ![id] = u.label]
                         ELSE label
             /\ status' = IF "status" \in DOMAIN u THEN [status EXCEPT ![id] = u.status]
                          ELSE status
             /\ completedAt' = IF "completed_at" \in DOMAIN u
                               THEN [completedAt EXCEPT ![id] = u.completed_at]
                               ELSE completedAt
             /\ pc' = [pc EXCEPT ![p] = "un_log"]
             /\ UNCHANGED <<resp, loc>>

\* lines 83-92
UN_Log(p) ==
  /\ pc[p] = "un_log"
  /\ log' = logActivity(log, "update", "node")
  /\ resp' = Response("updateNode", "Updated")
  /\ Finish(p)
  /\ UNCHANGED <<nodes, status, completedAt, edges, query, label, blitzes, priority,
                 auditDown, fab>>

NextStatusRace ==
  \E p \in Procs :
    \/ \E id \in NodeIds, st \in VALID_STATUSES \cup {"bogus"} : SS_Begin(p, id, st)
    \/ SS_DepEdges(p)
    \/ SS_DepNodes(p)
    \/ SS_Current(p)
    \/ SS_Update(p)
    \/ SS_Log(p)
    \/ \E s \in Sessions \cup {"s0"}, l \in Labels : CN_Begin(p, s, l)
    \/ CN_Insert(p)
    \/ CN_Log(p)
    \/ \E id \in NodeIds, patch \in Patches : UN_Begin(p, id, patch)
    \/ UN_Update(p)
    \/ UN_Log(p)
    \/ \E a \in NodeIds, b \in NodeIds, t \in {"dependency", "association"} :
         CE_Begin(p, SessionOf(a), a, b, t)
    \/ CE_Target(p)
    \/ CE_Cycle(p)
    \/ CE_Insert(p)
    \/ CE_Log(p)

\* The stores the two requests find: nodes 1 and 2 of session s1 and node 4
\* of session s2, node 1 pending or completed, and no edge or the dependency
\* edge 1 -> 2.
InitStatusRace ==
  /\ nodes = {1, 2, 4}
  /\ \E st \in {"pending", "completed"} :
       /\ status = [n \in NodeIds |-> IF n = 1 THEN st ELSE "pending"]
       /\ completedAt = [n \in NodeIds |-> IF status[n] = "completed" THEN "set" ELSE "null"]
  /\ edges \in {{}, {Edge("s1", 1, 2, "dependency")}}
  /\ log = [i \in 1..Cardinality(edges) |-> [action |-> "connect", target_type |-> "edge"]]
           \o [i \in 1..Cardinality({n \in nodes : status[n] = "completed"}) |->
                 [action |-> "status_change", target_type |-> "node"]]
  /\ resp = Response("none", "none")
  /\ pc = Idle
  /\ loc = NoLoc
  /\ query = NoQuery
  /\ label = [n \in NodeIds |-> "a"]
  /\ blitzes = NoBlitzes
  /\ priority = [n \in NodeIds |-> 0]
  /\ auditDown = FALSE
  /\ fab = FabClosed({})

SpecStatusRace == InitStatusRace /\ [][NextStatusRace]_vars

\* ------------------------------------------ blitz handlers, interleaved
\* POST /api/vision/blitzes, lines 63-90: validation, then
\* verifySessionOwnership
BC_Begin(p, s, title, st, members) ==
  LET code == CreateBlitzValidation(s, title, st)
  IN /\ pc[p] = "idle"
     /\ UNCHANGED <<nodes, status, completedAt, edges, log, query, label, blitzes, priority,
                 auditDown, fab>>
     /\ IF code # "ok"
        THEN resp' = BlitzResponse("createBlitz", code, 0) /\ Finish(p)
        ELSE /\ pc' = [pc EXCEPT ![p] = IF NewBlitz(s, st, members).status = "active"
                                        THEN "bc_check" ELSE "bc_insert"]
             /\ loc' = [loc EXCEPT ![p] =
                          [op |-> "createBlitz", row |-> NewBlitz(s, st, members)]]
             /\ UNCHANGED resp

\* lines 92-109: the read of the session's active blitzes
BC_Check(p) ==
  LET activeBlitzes == ActiveIn(blitzes, loc[p].row.session)
  IN /\ pc[p] = "bc_check"
     /\ UNCHANGED <<nodes, status, completedAt, edges, log, query, label, blitzes, priority,
                 auditDown, fab>>
     /\ IF activeBlitzes # {}
        THEN /\ \E x \in activeBlitzes :
                  resp' = BlitzResponse("createBlitz", "BlitzAlreadyActive", x)
             /\ Finish(p)
        ELSE pc' = [pc EXCEPT ![p] = "bc_insert"] /\ UNCHANGED <<resp, loc>>

\* lines 111-126: the insert
BC_Insert(p) ==
  /\ pc[p] = "bc_insert"
  /\ FreshBlitzes(blitzes) # {}
  /\ blitzes' = [blitzes EXCEPT ![NextBlitzId(blitzes)] = loc[p].row]
  /\ pc' = [pc EXCEPT ![p] = "bc_log"]
  /\ UNCHANGED <<nodes, status, completedAt, edges, log, resp, loc, query, label, priority,
                 auditDown, fab>>

\* lines 128-138
BC_Log(p) ==
  /\ pc[p] = "bc_log"
  /\ log' = logActivity(log, IF loc[p].row.status = "active"
                             THEN "blitz_start" ELSE "create", "blitz")
  /\ resp' = BlitzResponse("createBlitz", "Created", 0)
  /\ Finish(p)
  /\ UNCHANGED <<nodes, status, completedAt, edges, query, label, blitzes, priority,
                 auditDown, fab>>

\* PATCH /api/vision/blitzes/[id], lines 47-90: the read of the row, then
\* the validation of the body
BU_Begin(p, id, patch) ==
  LET code == UpdateBlitzValidation(blitzes, id, patch)
  IN /\ pc[p] = "idle"
     /\ UNCHANGED <<nodes, status, completedAt, edges, log, query, label, blitzes, priority,
                 auditDown, fab>>
     /\ IF code # "ok"
        THEN resp' = BlitzResponse("updateBlitz", code, 0) /\ Finish(p)
        ELSE /\ pc' = [pc EXCEPT ![p] = IF Activates(blitzes[id], patch)
                                        THEN "bu_check" ELSE "bu_update"]
             /\ loc' = [loc EXCEPT ![p] =
                          [op |-> "updateBlitz", id |-> id, patch |-> patch,
                           current |-> blitzes[id]]]
             /\ UNCHANGED resp

\* lines 92-111: the read of the session's other active blitzes
BU_Check(p) ==
  LET activeBlitzes == ActiveIn(blitzes, loc[p].current.session) \ {loc[p].id}
  IN /\ pc[p] = "bu_check"
     /\ UNCHANGED <<nodes, status, completedAt, edges, log, query, label, blitzes, priority,
                 auditDown, fab>>
     /\ IF activeBlitzes # {}
        THEN /\ \E x \in activeBlitzes :
                  resp' = BlitzResponse("updateBlitz", "BlitzAlreadyActive", x)
             /\ Finish(p)
        ELSE pc' = [pc EXCEPT ![p] = "bu_update"] /\ UNCHANGED <<resp, loc>>

\* lines 113-128: the update; the store refuses a status outside its CHECK
BU_Update(p) ==
  LET id == loc[p].id
  IN /\ pc[p] = "bu_update"
     /\ UNCHANGED <<nodes, status, completedAt, edges, log, query, label, priority,
                 auditDown, fab>>
     /\ IF loc[p].patch.status = "" \/ ~BlitzExists(blitzes, id)
        THEN /\ resp' = BlitzResponse("updateBlitz", "Failed", 0) /\ Finish(p)
             /\ UNCHANGED blitzes
        ELSE /\ blitzes' = [blitzes EXCEPT ![id] =
                              UpdatedBlitz(blitzes[id], loc[p].current, loc[p].patch)]
             /\ pc' = [pc EXCEPT ![p] = "bu_log"]
             /\ UNCHANGED <<resp, loc>>

\* lines 130-153
BU_Log(p) ==
  /\ pc[p] = "bu_log"
  /\ log' = logActivity(log, UpdateBlitzAction(loc[p].current, loc[p].patch), "blitz")
  /\ resp' = BlitzResponse("updateBlitz", "Updated", 0)
  /\ Finish(p)
  /\ UNCHANGED <<nodes, status, completedAt, edges, query, label, blitzes, priority,
                 auditDown, fab>>

NextBlitzRace ==
  \E p \in Procs :
    \/ \E s \in Sessions \cup {"s0"}, title \in Titles,
          st \in VALID_BLITZ_STATUSES \cup {"undef", "bogus"}, members \in MemberChoices :
         BC_Begin(p, s, title, st, members)
    \/ BC_Check(p)
    \/ BC_Insert(p)
    \/ BC_Log(p)
    \/ \E id \in BlitzIds, patch \in BlitzPatches : BU_Begin(p, id, patch)
    \/ BU_Check(p)
    \/ BU_Update(p)
    \/ BU_Log(p)

\* The stores the two requests find: no blitz, or blitz 1 planned in session
\* s1, or blitzes 1 and 2 planned in session s1.
SeedBlitzes ==
  {NoBlitzes,
   [b \in BlitzIds |-> IF b = 1 THEN Blitz("s1", "planned", "null", "null", {}) ELSE NoBlitz],
   [b \in BlitzIds |-> Blitz("s1", "planned", "null", "null", {})]}

InitBlitzRace ==
  /\ nodes = NodeIds
  /\ status = [n \in NodeIds |-> "pending"]
  /\ completedAt = [n \in NodeIds |-> "null"]
  /\ edges = {}
  /\ blitzes \in SeedBlitzes
  /\ priority = [n \in NodeIds |-> 0]
  /\ auditDown = FALSE
  /\ fab = FabClosed({})
  /\ log = [i \in 1..Cardinality({b \in BlitzIds : BlitzExists(blitzes, b)}) |->
              [action |-> "create", target_type |-> "blitz"]]
  /\ resp = Response("none", "none")
  /\ pc = Idle
  /\ loc = NoLoc
  /\ query = NoQuery
  /\ label = [n \in NodeIds |-> "a"]

SpecBlitzRace == InitBlitzRace /\ [][NextBlitzRace]_vars

\* ------------------------------------------------- blitz deletion, audit
\* The row a deleted blitz leaves at its id (ids are not handed out again).
DeletedBlitz == Blitz("none", "deleted", "null", "null", {})

\* DELETE /api/vision/blitzes/[id], lines 164-180: the read of the blitz
BD_Begin(p, id) ==
  /\ pc[p] = "idle"
  /\ UNCHANGED <<nodes, status, completedAt, edges, log, query, label, blitzes, priority,
                 auditDown, fab>>
  /\ IF ~BlitzExists(blitzes, id)
     THEN resp' = BlitzResponse("deleteBlitz", "BlitzNotFound", 0) /\ Finish(p)
     ELSE /\ pc' = [pc EXCEPT ![p] = IF blitzes[id].status = "active"
                                     THEN "bd_end" ELSE "bd_delete"]
          /\ loc' = [loc EXCEPT ![p] =
                       [op |-> "deleteBlitz", id |-> id, current |-> blitzes[id]]]
          /\ UNCHANGED resp

\* lines 182-192: blitz_end is logged for an active blitz, before the delete
BD_End(p) ==
  /\ pc[p] = "bd_end"
  /\ log' = logActivity(log, "blitz_end", "blitz")
  /\ pc' = [pc EXCEPT ![p] = "bd_delete"]
  /\ UNCHANGED <<nodes, status, completedAt, edges, resp, loc, query, label, blitzes,
                 priority, auditDown, fab>>

\* lines 194-202: the delete; the store can answer it with an error
BD_Delete(p) ==
  /\ pc[p] = "bd_delete"
  /\ UNCHANGED <<nodes, status, completedAt, edges, log, query, label, priority,
                 auditDown, fab>>
  /\ \E error \in BOOLEAN :
       IF error
       THEN /\ resp' = BlitzResponse("deleteBlitz", "Failed", 0) /\ Finish(p)
            /\ UNCHANGED blitzes
       ELSE /\ blitzes' = [blitzes EXCEPT ![loc[p].id] =
                             IF BlitzExists(blitzes, loc[p].id) THEN DeletedBlitz ELSE @]
            /\ pc' = [pc EXCEPT ![p] = "bd_log"]
            /\ UNCHANGED <<resp, loc>>

\* lines 204-213
BD_Log(p) ==
  /\ pc[p] = "bd_log"
  /\ log' = logActivity(log, "delete", "blitz")
  /\ resp' = BlitzResponse("deleteBlitz", "Deleted", 0)
  /\ Finish(p)
  /\ UNCHANGED <<nodes, status, completedAt, edges, query, label, blitzes, priority,
                 auditDown, fab>>

\* One request of any of the mutating handlers, by one caller.
Caller == "p1"

NextAudit ==
  \/ \E a \in NodeIds, b \in NodeIds, t \in {"dependency", "hierarchy", "bogus"} :
       CE_Begin(Caller, "s1", a, b, t)
  \/ CE_Target(Caller)
  \/ CE_Cycle(Caller)
  \/ CE_Insert(Caller)
  \/ CE_Log(Caller)
  \/ \E key \in EdgeKeys : DE_Begin(Caller, key)
  \/ DE_Delete(Caller)
  \/ DE_Log(Caller)
  \/ \E id \in NodeIds : DN_Begin(Caller, id)
  \/ DN_Parents(Caller)
  \/ DN_Children(Caller)
  \/ DN_Upsert(Caller)
  \/ DN_Delete(Caller)
  \/ DN_Log(Caller)
  \/ \E id \in NodeIds, st \in VALID_STATUSES \cup {"bogus"} : SS_Begin(Caller, id, st)
  \/ SS_DepEdges(Caller)
  \/ SS_DepNodes(Caller)
  \/ SS_Current(Caller)
  \/ SS_Update(Caller)
  \/ SS_Log(Caller)
  \/ \E s \in Sessions \cup {"s0"}, l \in Labels : CN_Begin(Caller, s, l)
  \/ CN_Insert(Caller)
  \/ CN_Log(Caller)
  \/ \E id \in NodeIds, patch \in Patches : UN_Begin(Caller, id, patch)
  \/ UN_Update(Caller)
  \/ UN_Log(Caller)
  \/ \E s \in Sessions, title \in Titles,
        st \in VALID_BLITZ_STATUSES \cup {"undef", "bogus"}, members \in MemberChoices :
       BC_Begin(Caller, s, title, st, members)
  \/ BC_Check(Caller)
  \/ BC_Insert(Caller)
  \/ BC_Log(Caller)
  \/ \E id \in BlitzIds, patch \in BlitzPatches : BU_Begin(Caller, id, patch)
  \/ BU_Check(Caller)
  \/ BU_Update(Caller)
  \/ BU_Log(Caller)
  \/ \E id \in BlitzIds : BD_Begin(Caller, id)
  \/ BD_End(Caller)
  \/ BD_Delete(Caller)
  \/ BD_Log(Caller)

\* The stores the request meets: nodes 1, 2 and 3, a chain of two edges or
\* none, a planned or an active blitz or none, and an activity_log that
\* takes rows or refuses them.
AuditBlitzes ==
  {NoBlitzes,
   [b \in BlitzIds |-> IF b = 1 THEN Blitz("s1", "planned", "null", "null", {}) ELSE NoBlitz],
   [b \in BlitzIds |-> IF b = 1 THEN Blitz("s1", "active", "set", "null", {1}) ELSE NoBlitz]}

InitAudit ==
  /\ nodes = {1, 2, 3}
  /\ status = [n \in NodeIds |-> "pending"]
  /\ completedAt = [n \in NodeIds |-> "null"]
  /\ edges \in {{}, {Edge("s1", 1, 2, "dependency"), Edge("s1", 2, 3, "dependency")}}
  /\ blitzes \in AuditBlitzes
  /\ log = [i \in 1..Cardinality(edges) |-> [action |-> "connect", target_type |-> "edge"]]
           \o [i \in 1..Cardinality({b \in BlitzIds : BlitzExists(blitzes, b)}) |->
                 [action |-> IF blitzes[1].status = "active" THEN "blitz_start" ELSE "create",
                  target_type |-> "blitz"]]
  /\ resp = Response("none", "none")
  /\ pc = Idle
  /\ loc = NoLoc
  /\ query = NoQuery
  /\ label = [n \in NodeIds |-> "a"]
  /\ priority = [n \in NodeIds |-> 0]
  /\ auditDown \in BOOLEAN
  /\ fab = FabClosed({})

SpecAudit == InitAudit /\ [][NextAudit]_vars

\* --------------------------------------------------- updateNode on its own
\* One PATCH /api/vision/nodes/[id], its body with or without fields that
\* are not in the list.
NextUpdate ==
  \/ \E id \in NodeIds, patch \in Patches \cup FullPatches : UN_Begin(Caller, id, patch)
  \/ UN_Update(Caller)
  \/ UN_Log(Caller)

SpecUpdate == InitAudit /\ [][NextUpdate]_vars

\* ------------------------------------------------- the widget on its own
NextFab ==
  \/ FabDismiss
  \/ FabClick
  \/ \E str \in FabTitles : FabSetTitle(str)
  \/ \E id \in {"", "p1"} : FabSetParentId(id)
  \/ handleSubmit
  \/ \E outcome \in FetchOutcomes : FetchSettled(outcome)

InitFab ==
  /\ nodes = NodeIds
  /\ status = [n \in NodeIds |-> "pending"]
  /\ completedAt = [n \in NodeIds |-> "null"]
  /\ edges = {}
  /\ log = <<>>
  /\ resp = Response("none", "none")
  /\ pc = Idle
  /\ loc = NoLoc
  /\ query = NoQuery
  /\ label = [n \in NodeIds |-> "a"]
  /\ blitzes = NoBlitzes
  /\ priority = [n \in NodeIds |-> 0]
  /\ auditDown = FALSE
  /\ \E existingNodes \in {{}, {"p1"}} : fab = FabClosed(existingNodes)

SpecFab == InitFab /\ [][NextFab]_vars

\* ------------------------------------------- CycleGuard on arbitrary graphs
\* The ordered pairs an edge row can join: distinct nodes of one session.
EdgePairs == {pr \in NodeIds \X NodeIds : pr[1] # pr[2] /\ SessionOf(pr[1]) = SessionOf(pr[2])}

\* The edge sets of at most MaxGraphEdges rows that unique_vision_edge admits.
Graphs ==
  {{Edge(SessionOf(pr[1]), pr[1], pr[2], f[pr]) : pr \in {q \in EdgePairs : f[q] # "none"}} :
     f \in {g \in [EdgePairs -> VALID_EDGE_TYPES \cup {"none"}] :
              Cardinality({q \in EdgePairs : g[q] # "none"}) <= MaxGraphEdges}}

InitCycleGuard ==
  /\ nodes = NodeIds
  /\ status = [n \in NodeIds |-> "pending"]
  /\ completedAt = [n \in NodeIds |-> "null"]
  /\ edges \in Graphs
  /\ log = <<>>
  /\ resp = Response("none", "none")
  /\ pc = Idle
  /\ loc = NoLoc
  /\ query = NoQuery
  /\ label = [n \in NodeIds |-> "a"]
  /\ blitzes = NoBlitzes
  /\ priority = [n \in NodeIds |-> 0]
  /\ auditDown = FALSE
  /\ fab = FabClosed({})

\* The call of wouldCreateCycle that POST /api/vision/edges makes.
CycleQuery(s, a, b) ==
  /\ a # b
  /\ query' = [fn |-> "wouldCreateCycle", session |-> s, source |-> a, target |-> b,
               result |-> wouldCreateCycle(edges, s, a, b)]
  /\ UNCHANGED <<nodes, status, completedAt, edges, log, resp, pc, loc, label, blitzes, priority,
                 auditDown, fab>>

NextCycleGuard == \E s \in Sessions, a \in NodeIds, b \in NodeIds : CycleQuery(s, a, b)

SpecCycleGuard == InitCycleGuard /\ [][NextCycleGuard]_vars


\* ---------------------------------------------------- ReachabilityAnalyzer
\* The safety limit of both recursive queries (WHERE depth < 100).
MaxDepth == 100

\* vision.downstream_nodes, recursive term: the rows joined to the working
\* table, for its rows of depth below the limit.
DownstreamStep(E, work) ==
  UNION {{<<e.target, d[2] + 1>> : e \in {x \in E : x.source = d[1]}} :
           d \in {w \in work : w[2] < MaxDepth}}

\* WITH RECURSIVE ... UNION: rows already produced are discarded, the new
\* ones are the next working table, until none is new.
RECURSIVE DownstreamRows(_, _, _)
DownstreamRows(E, rows, work) ==
  IF work = {} THEN rows
  ELSE LET new == DownstreamStep(E, work) \ rows
       IN DownstreamRows(E, rows \cup new, new)

\* Mutant: the traversal follows dependency edges only.
downstream_nodes_dependency(E, start_node_id) ==
  LET D == {x \in E : x.type = "dependency"}
      base == {<<e.target, 1>> : e \in {x \in D : x.source = start_node_id}}
      rows == DownstreamRows(D, base, base)
  IN {r \in rows : \A q \in rows : q[1] = r[1] => r[2] <= q[2]}

\* vision.downstream_nodes(start_node_id): SELECT DISTINCT ON (node_id)
\* node_id, depth ... ORDER BY node_id, depth keeps, for every node_id, the
\* row of least depth. The rows are <<node_id, depth>>.
downstream_nodes(E, start_node_id) ==
  LET base == {<<e.target, 1>> : e \in {x \in E : x.source = start_node_id}}
      rows == DownstreamRows(E, base, base)
  IN {r \in rows : \A q \in rows : q[1] = r[1] => r[2] <= q[2]}

\* Mutant: the limit admits one more round.
AncestorStepOneMore(E, work) ==
  UNION {{<<e.source, a[2] + 1>> :
            e \in {x \in E : x.type = "dependency" /\ x.target = a[1]}} :
           a \in {w \in work : w[2] <= MaxDepth}}

\* vision.dep_depth, recursive term.
AncestorStep(E, work) ==
  UNION {{<<e.source, a[2] + 1>> :
            e \in {x \in E : x.type = "dependency" /\ x.target = a[1]}} :
           a \in {w \in work : w[2] < MaxDepth}}

RECURSIVE AncestorRows(_, _, _)
AncestorRows(E, rows, work) ==
  IF work = {} THEN rows
  ELSE LET new == AncestorStep(E, work) \ rows
       IN AncestorRows(E, rows \cup new, new)

\* The greatest depth among the rows, 0 when there is none
\* (COALESCE(MAX(depth), 0)).
MaxRowDepth(rows) ==
  IF rows = {} THEN 0
  ELSE CHOOSE k \in {r[2] : r \in rows} : \A r \in rows : r[2] <= k

\* vision.dep_depth(target_node_id). The function is LANGUAGE sql and its
\* parameter bears the name of a column of vision.edges: in the base term
\* "WHERE e.target_node_id = target_node_id" the unqualified name resolves
\* to the column (in an SQL function a column name takes precedence over an
\* argument of the same name), so the condition holds for every row and the
\* base term selects the source of every dependency edge of the table.
dep_depth(E, target_node_id) ==
  LET base == {<<e.source, 1>> :
                 e \in {x \in E : /\ x.target = x.target
                                   /\ x.type = "dependency"}}
  IN MaxRowDepth(AncestorRows(E, base, base))

\* The two queries on the stored graph, each asked of the graph as stored.
DepthQuery(n) ==
  /\ query = NoQuery
  /\ query' = [fn |-> "dep_depth", node |-> n, result |-> dep_depth(edges, n)]
  /\ UNCHANGED <<nodes, status, completedAt, edges, log, resp, pc, loc, label, blitzes, priority,
                 auditDown, fab>>

DownstreamQuery(n) ==
  /\ query = NoQuery
  /\ query' = [fn |-> "downstream_nodes", node |-> n,
               result |-> downstream_nodes(edges, n)]
  /\ UNCHANGED <<nodes, status, completedAt, edges, log, resp, pc, loc, label, blitzes, priority,
                 auditDown, fab>>

NextReach == \E n \in nodes : DepthQuery(n) \/ DownstreamQuery(n)

\* A chain of MaxDepth + 1 edges of one session, the shortest graph with a
\* node beyond the limit: node 4 -> 5 -> ... -> MaxDepth + 5.
ChainNodes == 4 .. (MaxDepth + 5)
Chain == {Edge("s2", n, n + 1, "dependency") : n \in 4 .. (MaxDepth + 4)}

InitChain ==
  /\ nodes = ChainNodes
  /\ status = [n \in ChainNodes |-> "pending"]
  /\ completedAt = [n \in ChainNodes |-> "null"]
  /\ edges = Chain
  /\ log = <<>>
  /\ resp = Response("none", "none")
  /\ pc = Idle
  /\ loc = NoLoc
  /\ query = NoQuery
  /\ label = [n \in ChainNodes |-> "a"]
  /\ blitzes = NoBlitzes
  /\ priority = [n \in ChainNodes |-> 0]
  /\ auditDown = FALSE
  /\ fab = FabClosed({})

InitReach == InitCycleGuard \/ InitChain

SpecReach == InitReach /\ [][NextReach]_vars

\* ------------------------------------------------------- graph vocabulary
\* The ordered pairs joined by dependency edges of session s.
DepPairs(E, s) ==
  {<<e.source, e.target>> : e \in {d \in E : d.session = s /\ d.type = "dependency"}}

\* The ordered pairs joined by edges of any type.
AllPairs(E) == {<<e.source, e.target>> : e \in E}

\* Transitive closure: <<a, b>> is in it iff a path of one or more pairs leads
\* from a to b.
RECURSIVE Closure(_)
Closure(R) ==
  LET step == R \cup {<<x[1], y[2]>> : <<x, y>> \in {pr \in R \X R : pr[1][2] = pr[2][1]}}
  IN IF step = R THEN R ELSE Closure(step)

Reaches(R, a, b) == <<a, b>> \in Closure(R)

DepAcyclic(E) ==
  \A s \in Sessions : \A n \in NodeIds : ~Reaches(DepPairs(E, s), n, n)

\* Node n is a stored node of session s.
Present(n, s) == n \in nodes /\ SessionOf(n) = s

HasEdge(E, s, a, b) == \E e \in E : EdgeKey(e) = <<s, a, b>>

\* ------------------------------------------- node deletion on stored graphs
\* The graphs that createEdge requests processed one at a time can leave: no
\* self-loop, one edge per ordered pair, no dependency cycle.
SerialGraphs == {G \in Graphs : DepAcyclic(G)}

InitReparent ==
  /\ nodes = NodeIds
  /\ status = [n \in NodeIds |-> "pending"]
  /\ completedAt = [n \in NodeIds |-> "null"]
  /\ edges \in SerialGraphs
  /\ log = [i \in 1..Cardinality(edges) |-> [action |-> "connect", target_type |-> "edge"]]
  /\ resp = Response("none", "none")
  /\ pc = Idle
  /\ loc = NoLoc
  /\ query = NoQuery
  /\ label = [n \in NodeIds |-> "a"]
  /\ blitzes = NoBlitzes
  /\ priority = [n \in NodeIds |-> 0]
  /\ auditDown = FALSE
  /\ fab = FabClosed({})

SpecReparent == InitReparent /\ [][NextReparent]_vars

\* ----------------------------------------------------------- ScoringEngine
\* JavaScript numbers as far as the handler meets them: an integer, NaN or
\* Infinity.
Num(v) == [kind |-> "num", val |-> v]
NaN == [kind |-> "nan", val |-> 0]
Infinity == [kind |-> "inf", val |-> 0]

\* The values of the blitz_multiplier query parameter ("undef": not sent).
MultiplierParams == {"undef", "3", "0", "-1", "abc", "Infinity", "2abc"}

\* parseFloat: the longest numeric prefix of the string, NaN when there is
\* none.
parseFloat(str) ==
  CASE str = "2.0" -> Num(2)
    [] str = "3" -> Num(3)
    [] str = "0" -> Num(0)
    [] str = "-1" -> Num(0 - 1)
    [] str = "2abc" -> Num(2)
    [] str = "Infinity" -> Infinity
    [] OTHER -> NaN

\* lines 314-316
blitzMultiplier(param) == parseFloat(IF param = "undef" THEN "2.0" ELSE param)

\* line 318: isNaN(blitzMultiplier) || blitzMultiplier <= 0
MultiplierRejected(m) == m.kind = "nan" \/ (m.kind = "num" /\ m.val <= 0)

\* baseScore * blitzMultiplier, for a base score that is not negative
Times(base, m) ==
  CASE m.kind = "num" -> Num(base * m.val)
    [] m.kind = "inf" -> IF base = 0 THEN NaN ELSE Infinity
    [] OTHER -> NaN

\* The sign of b.score - a.score, the value of the comparator of line 375
\* (a comparator value of NaN counts as 0).
Compare(a, b) ==
  CASE a.score.kind = "nan" \/ b.score.kind = "nan" -> 0
    [] a.score.kind = "inf" /\ b.score.kind = "inf" -> 0
    [] b.score.kind = "inf" -> 1
    [] a.score.kind = "inf" -> 0 - 1
    [] OTHER -> IF b.score.val > a.score.val THEN 1
                ELSE IF b.score.val < a.score.val THEN 0 - 1 ELSE 0

\* The sequences that hold every element of S once.
Orders(S) ==
  {f \in [1 .. Cardinality(S) -> S] : \A x \in S : \E i \in DOMAIN f : f[i] = x}

Range(f) == {f[i] : i \in DOMAIN f}

\* The comparator orders the rows consistently.
ConsistentComparator(rows) ==
  \A a, b, c \in Range(rows) :
    /\ (Compare(a, b) = 0 /\ Compare(b, c) = 0) => Compare(a, c) = 0
    /\ (Compare(a, b) < 0 /\ Compare(b, c) <= 0) => Compare(a, c) < 0
    /\ (Compare(a, b) <= 0 /\ Compare(b, c) < 0) => Compare(a, c) < 0

\* Array.prototype.sort: with a consistent comparator the sort is stable,
\* rows that compare equal keep the order they came in; with an inconsistent
\* one the order is implementation-defined.
Sorted(rows) ==
  LET Index(x) == CHOOSE i \in DOMAIN rows : rows[i] = x
  IN {out \in Orders(Range(rows)) :
        ConsistentComparator(rows)
          => \A i, j \in DOMAIN out :
               i < j => \/ Compare(out[i], out[j]) < 0
                        \/ /\ Compare(out[i], out[j]) = 0
                           /\ Index(out[i]) < Index(out[j])}

\* knowledge.downstream_count and upstream_count
downstream_count(E, n) == Cardinality({e \in E : e.source = n})
upstream_count(E, n) == Cardinality({e \in E : e.target = n})

\* lines 326-331: the blitzes the query for the active blitz can match
BoostingBlitzes(B, s) == ActiveIn(B, s)

\* lines 346-372: the scored row of node n, blitzNodeIds being the members
\* of the blitz found and m the multiplier
ScoredRow(E, P, blitzNodeIds, m, n) ==
  LET baseScore == P[n] + downstream_count(E, n) * 2 + dep_depth(E, n)
      inBlitz == n \in blitzNodeIds
  IN [id |-> n,
      priority |-> P[n],
      dependency_depth |-> dep_depth(E, n),
      downstream_count |-> downstream_count(E, n),
      upstream_count |-> upstream_count(E, n),
      base_score |-> baseScore,
      in_blitz |-> inBlitz,
      blitz_multiplier |-> IF inBlitz THEN m ELSE Num(1),
      score |-> IF inBlitz THEN Times(baseScore, m) ELSE Num(baseScore)]

\* The answers GET /api/vision/nodes/scored can give for session s and the
\* multiplier sent: .limit(1) returns any one of the active blitzes of the
\* session, and the view returns the nodes of the session in any order.
ScoredResponses(N, E, P, B, s, param) ==
  LET m == blitzMultiplier(param)
      found == IF BoostingBlitzes(B, s) = {} THEN {0} ELSE BoostingBlitzes(B, s)
      members(a) == IF a = 0 THEN {} ELSE B[a].node_ids
      rows(a, order) == [i \in DOMAIN order |-> ScoredRow(E, P, members(a), m, order[i])]
  IN IF s = "" THEN {[code |-> "SessionRequired", data |-> <<>>, active_blitz_id |-> 0]}
     ELSE IF MultiplierRejected(m)
     THEN {[code |-> "InvalidMultiplier", data |-> <<>>, active_blitz_id |-> 0]}
     ELSE UNION {UNION {{[code |-> "ok", data |-> out, active_blitz_id |-> a] :
                          out \in Sorted(rows(a, order))} :
                        order \in Orders({n \in N : SessionOf(n) = s})} :
                   a \in found}

\* GET /api/vision/nodes/scored
ScoredQuery(s, param) ==
  /\ query = NoQuery
  /\ \E r \in ScoredResponses(nodes, edges, priority, blitzes, s, param) :
       query' = [fn |-> "listScoredNodes", session |-> s, blitz_multiplier |-> param,
                 code |-> r.code, data |-> r.data, active_blitz_id |-> r.active_blitz_id]
  /\ UNCHANGED <<nodes, status, completedAt, edges, log, resp, pc, loc, label, blitzes,
                 priority, auditDown, fab>>

NextScore == \E s \in Sessions \cup {""}, param \in MultiplierParams : ScoredQuery(s, param)

\* The stored graphs scored: hierarchy and dependency edges, no dependency
\* cycle.
ScoreGraphs ==
  {G \in Graphs : DepAcyclic(G) /\ \A e \in G : e.type \in {"dependency", "hierarchy"}}

\* The priorities and the blitzes scored. Two blitzes of one session can be
\* active together (two activations that interleave).
ScorePriorities == {P \in [NodeIds -> {0, 1}] : P[3] = 0 /\ P[4] = 0}
ScoreBlitzes ==
  {[b \in BlitzIds |-> IF b = 1 THEN first ELSE second] :
     first \in {NoBlitz} \cup {Blitz("s1", st, IF st = "planned" THEN "null" ELSE "set",
                                     IF st = "completed" THEN "set" ELSE "null", {1}) :
                                 st \in {"planned", "active", "completed"}},
     second \in {NoBlitz, Blitz("s1", "active", "set", "null", {2})}}

InitScore ==
  /\ nodes = NodeIds
  /\ status = [n \in NodeIds |-> "pending"]
  /\ completedAt = [n \in NodeIds |-> "null"]
  /\ edges \in ScoreGraphs
  /\ log = <<>>
  /\ resp = Response("none", "none")
  /\ pc = Idle
  /\ loc = NoLoc
  /\ query = NoQuery
  /\ label = [n \in NodeIds |-> "a"]
  /\ blitzes \in ScoreBlitzes
  /\ priority \in ScorePriorities
  /\ auditDown = FALSE
  /\ fab = FabClosed({})

SpecScore == InitScore /\ [][NextScore]_vars

\* ------------------------------------------------------------- getSubtree
\* The values of the max_depth query parameter ("undef": not sent).
MaxDepthParams == {"undef", "0", "1", "2", "-1", "abc"}

\* parseInt: the integer prefix of the string, NaN when there is none.
parseInt(str) ==
  CASE str = "0" -> Num(0)
    [] str = "1" -> Num(1)
    [] str = "2" -> Num(2)
    [] str = "-1" -> Num(0 - 1)
    [] OTHER -> NaN

\* line 48: parseInt(searchParams.get('max_depth') || '0')
maxDepth(param) == parseInt(IF param = "undef" THEN "0" ELSE param)

\* Mutant: rows at the limit are dropped.
filteredDescendantsBelow(descendants, m) ==
  IF m.kind = "num" /\ m.val > 0 THEN {r \in descendants : r[2] < m.val} ELSE descendants

\* lines 50-55: the rows of depth up to maxDepth, when maxDepth > 0
filteredDescendants(descendants, m) ==
  IF m.kind = "num" /\ m.val > 0 THEN {r \in descendants : r[2] <= m.val} ELSE descendants

\* GET /api/vision/nodes/[id]/tree on nodes N and edges E, once the rpc has
\* answered: the stored nodes among the filtered rows with their depth, the
\* edges with both ends among the root and the filtered rows, the total.
Subtree(N, E, id, param) ==
  LET rows == filteredDescendants(downstream_nodes(E, id), maxDepth(param))
      descendantIds == {r[1] : r \in rows}
      allIds == {id} \cup descendantIds
      found == {[id |-> r[1], depth |-> r[2]] : r \in {x \in rows : x[1] \in N}}
  IN [code |-> "ok", root |-> id, descendants |-> found,
      edges |-> {e \in E : e.source \in allIds /\ e.target \in allIds},
      total |-> Cardinality(found) + 1]

\* The handler: 404 for an unknown root, 500 when the rpc fails.
getSubtree(id, param) ==
  /\ query = NoQuery
  /\ \E error \in BOOLEAN :
       query' = [fn |-> "getSubtree", node |-> id, param |-> param,
                 result |-> IF id \notin nodes THEN [code |-> "NotFound"]
                            ELSE IF error THEN [code |-> "Failed"]
                            ELSE Subtree(nodes, edges, id, param)]
  /\ UNCHANGED <<nodes, status, completedAt, edges, log, resp, pc, loc, label, blitzes, priority,
                 auditDown, fab>>

NextTree == \E id \in NodeIds, param \in MaxDepthParams : getSubtree(id, param)

SpecTree == InitReach /\ [][NextTree]_vars

\* ------------------------------------------------------------------ claims
\* C1: with requests processed one at a time, the dependency subgraph is
\* acyclic in every state; a dependency insertion whose target already
\* reaches its source over dependency edges is answered CycleDetected, and a
\* request answered CycleDetected leaves the set of edges as it was.
C1_AcyclicSerial ==
  /\ [](/\ DepAcyclic(edges)
        /\ \A s \in Sessions, a \in NodeIds, b \in NodeIds :
             ( /\ a # b
               /\ Present(a, s) /\ Present(b, s)
               /\ Reaches(DepPairs(edges, s), b, a) )
             => CreateEdgeCode(nodes, edges, s, a, b, "dependency") = "CycleDetected")
  /\ [][resp'.code = "CycleDetected" => edges' = edges]_vars

\* A three-node cycle was refused: two dependency edges stored, the closing
\* one answered CycleDetected.
C1_Witness ==
  /\ resp = Response("createEdge", "CycleDetected")
  /\ \E a \in NodeIds, b \in NodeIds, c \in NodeIds :
       /\ a # c
       /\ Edge("s1", a, b, "dependency") \in edges
       /\ Edge("s1", b, c, "dependency") \in edges

\* C4: a createEdge is answered CycleDetected only if it is of type
\* dependency and its target reaches its source over dependency edges alone;
\* no request of another type is answered CycleDetected, whatever cycle it
\* closes, and edges of other types never make a dependency request fail so.
C4_OnlyDependencyChecked ==
  \A s \in Sessions, a \in NodeIds, b \in NodeIds, t \in VALID_EDGE_TYPES :
    CreateEdgeCode(nodes, edges, s, a, b, t) = "CycleDetected"
    => (t = "dependency" /\ Reaches(DepPairs(edges, s), b, a))

\* A non-dependency edge was accepted although it closed a directed cycle
\* that runs through a dependency edge.
C4_Witness ==
  /\ resp = Response("createEdge", "Created")
  /\ \E a \in NodeIds, b \in NodeIds, t \in VALID_EDGE_TYPES \ {"dependency"} :
       /\ Edge("s1", a, b, "dependency") \in edges
       /\ Edge("s1", b, a, t) \in edges

\* C5: createEdge with source = target is answered SelfLoop, for every edge
\* type and in every state, and a request answered SelfLoop changes neither
\* the edges nor the audit log.
C5_SelfLoopRejected ==
  /\ [](\A s \in Sessions, n \in NodeIds, t \in VALID_EDGE_TYPES \cup {"bogus"} :
          CreateEdgeCode(nodes, edges, s, n, n, t) = "SelfLoop")
  /\ [][resp'.code = "SelfLoop" => (edges' = edges /\ log' = log)]_vars

\* A self-loop was refused in a state that holds edges and audit rows.
C5_Witness ==
  /\ resp = Response("createEdge", "SelfLoop")
  /\ edges # {}
  /\ log # <<>>

\* C6: no stored edge has its source equal to its target.
C6_NoSelfLoopStored == \A e \in edges : e.source # e.target

\* C7 as stated: once an edge for (s, a, b) exists, every createEdge for that
\* ordered pair is answered DuplicateEdge.
C7_AlwaysDuplicateEdge ==
  \A s \in Sessions, a \in NodeIds, b \in NodeIds, t \in VALID_EDGE_TYPES :
    HasEdge(edges, s, a, b)
    => CreateEdgeCode(nodes, edges, s, a, b, t) = "DuplicateEdge"

\* C7 amended: once an edge for (s, a, b) exists, every createEdge for that
\* ordered pair fails and leaves the edges unchanged; it is answered
\* DuplicateEdge, except that a request with source = target is answered
\* SelfLoop and a request of type dependency whose target already reaches its
\* source over dependency edges is answered CycleDetected.
C7_DuplicateOrCycle ==
  /\ [](\A s \in Sessions, a \in NodeIds, b \in NodeIds, t \in VALID_EDGE_TYPES :
          HasEdge(edges, s, a, b)
          => CreateEdgeCode(nodes, edges, s, a, b, t) =
               IF a = b THEN "SelfLoop"
               ELSE IF t = "dependency" /\ Reaches(DepPairs(edges, s), b, a)
               THEN "CycleDetected"
               ELSE "DuplicateEdge")
  /\ [][resp'.code \in {"DuplicateEdge", "CycleDetected", "SelfLoop"}
        => edges' = edges]_vars

\* A second insert for a stored pair was answered DuplicateEdge.
C7_Witness ==
  /\ resp = Response("createEdge", "DuplicateEdge")
  /\ Cardinality(edges) >= 2

\* C8 as stated: createEdge is answered NodeNotFound whenever source or
\* target is missing or in another session.
C8_AlwaysNodeNotFound ==
  \A s \in Sessions, a \in NodeIds, b \in NodeIds, t \in VALID_EDGE_TYPES :
    ~(Present(a, s) /\ Present(b, s))
    => CreateEdgeCode(nodes, edges, s, a, b, t) = "NodeNotFound"

\* C8 amended: the same for requests with source # target (a request with
\* source = target is answered SelfLoop before the nodes are looked up); a
\* request answered NodeNotFound inserts no edge.
C8_NodeNotFound ==
  /\ [](\A s \in Sessions, a \in NodeIds, b \in NodeIds, t \in VALID_EDGE_TYPES :
          (a # b /\ ~(Present(a, s) /\ Present(b, s)))
          => CreateEdgeCode(nodes, edges, s, a, b, t) = "NodeNotFound")
  /\ [][resp'.code = "NodeNotFound" => edges' = edges]_vars

\* A createEdge naming a deleted node was answered NodeNotFound.
C8_Witness ==
  /\ resp = Response("createEdge", "NodeNotFound")
  /\ nodes # NodeIds
  /\ edges # {}

\* The direct dependency predecessors of n: the sources of the dependency
\* edges that target n.
DepPredecessors(E, n) ==
  {p \in NodeIds : \E e \in E : e.type = "dependency" /\ e.source = p /\ e.target = n}

\* C10: for an existing node n, setNodeStatus(n, completed) succeeds iff
\* every direct dependency predecessor of n is completed; otherwise it is
\* answered UnmetDependencies, listing the predecessors that are not
\* completed, and the statuses stay as they were.
C10_CompletionGate ==
  /\ [](\A n \in nodes :
          LET code == SetNodeStatusCode(nodes, status, edges, n, "completed")
              open == {p \in DepPredecessors(edges, n) : status[p] # "completed"}
          IN /\ code = "Updated" <=> open = {}
             /\ code # "Updated" => (code = "UnmetDependencies"
                                     /\ Unmet(nodes, status, edges, n) = open))
  /\ [][resp'.code = "UnmetDependencies"
        => (status' = status /\ resp'.unmet # {}
            /\ \A p \in resp'.unmet : status[p] # "completed")]_vars

\* Over a dependency edge A -> B, A was completed and then B was.
C10_Witness ==
  /\ resp = Response("setNodeStatus", "Updated")
  /\ Len(log) = 3
  /\ \E a \in NodeIds, b \in NodeIds :
       /\ Edge("s1", a, b, "dependency") \in edges
       /\ status[a] = "completed" /\ status[b] = "completed"

\* C11: a setNodeStatus(n, completed) answered UnmetDependencies lists exactly
\* the sources of the dependency edges targeting n that are not completed: no
\* completed node and no node joined to n by edges of other types only.  The
\* rejected request changes no status and no completion timestamp and appends
\* no audit row.
C11_UnmetListed ==
  /\ [](\A n \in nodes :
          SetNodeStatusCode(nodes, status, edges, n, "completed") = "UnmetDependencies"
          => Unmet(nodes, status, edges, n) =
               {p \in DepPredecessors(edges, n) : status[p] # "completed"})
  /\ [][resp'.code = "UnmetDependencies"
        => /\ status' = status /\ completedAt' = completedAt /\ log' = log
           /\ \E n \in nodes :
                resp'.unmet = {p \in DepPredecessors(edges, n) : status[p] # "completed"}]_vars

\* A completion was refused listing one node, while the target also has an
\* incoming association edge from another node that is not completed.
C11_Witness ==
  /\ resp.op = "setNodeStatus" /\ resp.code = "UnmetDependencies"
  /\ \E a \in NodeIds, b \in NodeIds, n \in NodeIds :
       /\ a # b
       /\ resp.unmet = {a}
       /\ Edge(SessionOf(n), a, n, "dependency") \in edges
       /\ Edge(SessionOf(n), b, n, "association") \in edges
       /\ status[b] # "completed"

\* C12: for an existing node, a setNodeStatus to pending, in_progress, blocked
\* or cancelled succeeds whatever the node's status and the statuses of its
\* dependency predecessors; a value outside the five statuses is answered
\* InvalidStatus and leaves statuses, timestamps and audit log as they were.
C12_OnlyCompletionGated ==
  /\ [](\A n \in nodes :
          /\ \A s \in VALID_STATUSES \ {"completed"} :
               SetNodeStatusCode(nodes, status, edges, n, s) = "Updated"
          /\ \A s \in {"bogus", ""} :
               SetNodeStatusCode(nodes, status, edges, n, s) = "InvalidStatus")
  /\ [][resp'.code = "InvalidStatus"
        => (status' = status /\ completedAt' = completedAt /\ log' = log)]_vars

\* A node was moved to blocked while one of its dependency predecessors is
\* not completed.
C12_Witness ==
  /\ resp = Response("setNodeStatus", "Updated")
  /\ \E a \in NodeIds, b \in NodeIds :
       /\ Edge(SessionOf(b), a, b, "dependency") \in edges
       /\ status[a] # "completed"
       /\ status[b] = "blocked"

\* C13: under any interleaving of createNode, updateNode and setNodeStatus
\* requests, a stored node's completion timestamp is set iff its status is
\* completed.
C13_CompletedAtIffCompleted ==
  \A n \in nodes : completedAt[n] = "set" <=> status[n] = "completed"

\* C14: under any interleaving, a write that moves a node to completed lands
\* on a store in which every dependency predecessor of the node is completed.
C14_NoPrematureCompletion ==
  [][\A n \in nodes :
       (status[n] # "completed" /\ status'[n] = "completed")
       => \A q \in DepPredecessors(edges, n) : status[q] = "completed"]_vars

\* The node a successful deleteNode step removes, as a set.
Removed == nodes \ nodes'

\* The re-parenting pairs of node n: a parent edge and a child edge of n of
\* equal type.
MatchingPairs(E, n) ==
  {pr \in ParentEdges(E, n) \X ChildEdges(E, n) : pr[1].type = pr[2].type}

EdgesJoining(E, a, b) == {e \in E : e.source = a /\ e.target = b}

\* C15: after a deleteNode(N) processed on its own, N is gone, no edge is
\* incident to N, and for every parent edge p -> N and child edge N -> c of
\* one type t exactly one edge joins p to c, and it is of type t.
C15_Reparented ==
  [][\A n \in Removed :
       /\ \A e \in edges' : e.source # n /\ e.target # n
       /\ \A pr \in MatchingPairs(edges, n) :
            /\ Cardinality(EdgesJoining(edges', pr[1].source, pr[2].target)) = 1
            /\ Edge(SessionOf(n), pr[1].source, pr[2].target, pr[1].type) \in edges']_vars

\* C16: a deleteNode(N) processed on its own adds or changes an edge p -> c
\* only for a parent edge p -> N and a child edge N -> c of equal type; where
\* the two types differ it creates no edge p -> c; every edge that is neither
\* incident to N nor joins such a matching pair is kept as it was.
C16_OnlyMatchingTypes ==
  [][\A n \in Removed :
       /\ \A e \in edges' \ edges :
            \E pr \in MatchingPairs(edges, n) :
              e = Edge(SessionOf(n), pr[1].source, pr[2].target, pr[1].type)
       /\ \A pr \in ParentEdges(edges, n) \X ChildEdges(edges, n) :
            (pr[1].type # pr[2].type
             /\ EdgesJoining(edges, pr[1].source, pr[2].target) = {})
            => EdgesJoining(edges', pr[1].source, pr[2].target) = {}
       /\ \A e \in edges :
            ( /\ e.source # n /\ e.target # n
              /\ ~\E pr \in MatchingPairs(edges, n) :
                    e.source = pr[1].source /\ e.target = pr[2].target )
            => e \in edges']_vars

\* Node 2 was deleted from 1 -hierarchy-> 2 -dependency-> 3 with the edge
\* 3 -> 1 stored: no edge joins 1 to 3.
C16_Witness ==
  /\ resp = Response("deleteNode", "Deleted")
  /\ nodes = NodeIds \ {2}
  /\ Len(log) = 4
  /\ edges = {Edge("s1", 3, 1, "sequence")}

\* C17: a deleteNode(N) processed on its own leaves every edge that is not
\* incident to N as it was, type included, also an edge p -> c that joins a
\* parent of N to a child of N.
C17_ExistingEdgeUntouched ==
  [][\A n \in Removed :
       \A e \in edges : (e.source # n /\ e.target # n) => e \in edges']_vars

\* C18: deleteNode is atomic for concurrent requests: no state holds the
\* re-parenting rows of a deleteNode in progress together with the node being
\* deleted, and when the node's row is deleted, an edge of N that was
\* inserted after the deleteNode read N's edges, and that matches an edge on
\* the other side of N in type (p -> N and N -> c; p, c and N distinct),
\* leaves an edge p -> c behind.
C18_DeleteNodeAtomic ==
  /\ [](\A p \in Procs :
          pc[p] = "dn_delete"
          => LET rows == ReparentRows(SessionOf(loc[p].id), loc[p].parentEdges,
                                      loc[p].childEdges)
             IN ~(loc[p].id \in nodes /\ rows # {} /\ rows \subseteq edges))
  /\ [][\A p \in Procs :
          (pc[p] = "dn_delete" /\ pc'[p] = "dn_log")
          => \A pr \in MatchingPairs(edges, loc[p].id) :
               ( /\ pr[1].source # loc[p].id /\ pr[2].target # loc[p].id
                 /\ pr[1].source # pr[2].target
                 /\ (pr[1] \notin loc[p].parentEdges \/ pr[2] \notin loc[p].childEdges) )
               => EdgesJoining(edges', pr[1].source, pr[2].target) # {}]_vars

\* C19: with requests processed one at a time, creating a blitz as active in
\* session s succeeds iff s has no active blitz, and updating a blitz that is
\* not active to active succeeds iff no other blitz of its session is active;
\* otherwise the answer is BlitzAlreadyActive, naming an active blitz, with
\* blitzes and audit log unchanged.  Active blitzes of other sessions have no
\* part in the answer.
C19_OneActivationPerSession ==
  /\ [](/\ \A s \in Sessions :
             CreateBlitzCode(blitzes, s, "t", "active") =
               IF \E b \in BlitzIds : blitzes[b].session = s /\ blitzes[b].status = "active"
               THEN "BlitzAlreadyActive" ELSE "Created"
        /\ \A id \in BlitzIds, m \in BOOLEAN :
             (BlitzExists(blitzes, id) /\ blitzes[id].status # "active")
             => UpdateBlitzCode(blitzes, id, [status |-> "active", members |-> m,
                                              node_ids |-> {}]) =
                  IF \E b \in BlitzIds \ {id} : /\ blitzes[b].session = blitzes[id].session
                                                 /\ blitzes[b].status = "active"
                  THEN "BlitzAlreadyActive" ELSE "Updated")
  /\ [][resp'.code = "BlitzAlreadyActive"
        => /\ blitzes' = blitzes /\ log' = log
           /\ blitzes[resp'.active_blitz].status = "active"]_vars

\* An activation was refused in one session while a blitz is active in each
\* of the two sessions.
C19_Witness ==
  /\ resp.code = "BlitzAlreadyActive"
  /\ \E a \in BlitzIds, b \in BlitzIds :
       /\ blitzes[a].session = "s1" /\ blitzes[a].status = "active"
       /\ blitzes[b].session = "s2" /\ blitzes[b].status = "active"
       /\ resp.active_blitz \in {a, b}

\* C20: under any interleaving of blitz create and update requests, every
\* session has at most one blitz in status active.
C20_AtMostOneActive ==
  \A s \in Sessions :
    Cardinality({b \in BlitzIds : blitzes[b].session = s /\ blitzes[b].status = "active"}) <= 1

\* C21: a successful blitz request that moves a blitz from a non-active
\* status (or from nothing) into active sets its start time, one that sets
\* the status to completed or abandoned sets its completion time, and a
\* request that leaves the status of a blitz as it was leaves both of its
\* timestamps as they were.
C21_TimestampsFollowStatus ==
  [][\A b \in BlitzIds :
       LET old == blitzes[b]
           new == blitzes'[b]
       IN /\ (new.status = "active" /\ old.status # "active")
               => new.started_at = "set"
          /\ (new.status \in {"completed", "abandoned"} /\ old.status # new.status)
               => new.completed_at = "set"
          /\ old.status = new.status
               => /\ new.started_at = old.started_at
                  /\ new.completed_at = old.completed_at]_vars

\* C22: a blitz that is active and still stored after a request either is
\* still active or is completed or abandoned with its completion time set;
\* no request moves an active blitz to planned.
C22_ActiveLeavesByFinish ==
  [][\A b \in BlitzIds :
       (/\ blitzes[b].status = "active"
        /\ blitzes'[b].status \in VALID_BLITZ_STATUSES \ {"active"})
         => /\ blitzes'[b].status \in {"completed", "abandoned"}
            /\ blitzes'[b].completed_at = "set"]_vars

\* The sources of the dependency edges into n.
DependencyPredecessors(E, n) ==
  {e.source : e \in {x \in E : x.type = "dependency" /\ x.target = n}}

\* The dependency edges on a chain ending at n.
ChainEdgesInto(E, n) ==
  {e \in E : /\ e.type = "dependency"
             /\ \/ e.target = n
                \/ \E s \in Sessions : Reaches(DepPairs(E, s), e.target, n)}

\* C23: on an acyclic dependency graph of fewer edges than the hop limit,
\* dep_depth(n) is 0 iff no dependency edge targets n, is otherwise one more
\* than the greatest dep_depth of the sources of the dependency edges into
\* n, and is the same on the graph reduced to the dependency edges on a
\* chain ending at n.
C23_DepthRecurrence ==
  (/\ query.fn = "dep_depth"
   /\ Cardinality(edges) < MaxDepth
   /\ DepAcyclic(edges))
  => LET n == query.node
         preds == DependencyPredecessors(edges, n)
     IN /\ query.result = dep_depth(edges, n)
        /\ query.result = 0 <=> preds = {}
        /\ preds # {}
             => \E p \in preds :
                  /\ query.result = 1 + dep_depth(edges, p)
                  /\ \A q \in preds : dep_depth(edges, q) <= dep_depth(edges, p)
        /\ query.result = dep_depth(ChainEdgesInto(edges, n), n)

\* The targets of the edges leaving the nodes of S.
Successors(E, S) == {e.target : e \in {x \in E : x.source \in S}}

\* Breadth-first search with a visited set: <<n, k>> for every node n first
\* found after k edges.
RECURSIVE ShortestDepths(_, _, _, _)
ShortestDepths(E, seen, frontier, k) ==
  IF frontier = {} THEN {}
  ELSE {<<n, k>> : n \in frontier}
       \cup ShortestDepths(E, seen \cup frontier,
                           Successors(E, frontier) \ (seen \cup frontier), k + 1)

\* Every node reachable from a by one or more edges of any type, with the
\* length of the shortest path to it.
ReachableFrom(E, a) == ShortestDepths(E, {}, Successors(E, {a}), 1)

\* C24 as stated: downstream(node) returns exactly the nodes reachable from
\* the start node by one or more edges of any type, each once, with the
\* length of the shortest path.
C24_AllReachable ==
  query.fn = "downstream_nodes" => query.result = ReachableFrom(edges, query.node)

\* C24: downstream(node) returns exactly the nodes reachable from the start
\* node by a path of one to MaxDepth edges of any type, each in one row,
\* with the length of the shortest path.
C24_ReachableWithinLimit ==
  query.fn = "downstream_nodes"
  => /\ query.result = {r \in ReachableFrom(edges, query.node) : r[2] <= MaxDepth}
     /\ \A r, q \in query.result : r[1] = q[1] => r = q

\* The traversal stopped at the limit: MaxDepth rows returned and a node
\* farther away left out.
C24_Witness ==
  /\ query.fn = "downstream_nodes"
  /\ Cardinality(query.result) = MaxDepth
  /\ \E r \in ReachableFrom(edges, query.node) : r[2] > MaxDepth

\* The length of the longest chain of dependency edges ending at n, on a
\* graph without dependency cycle.
RECURSIVE LongestChainInto(_, _)
LongestChainInto(E, n) ==
  LET preds == DependencyPredecessors(E, n)
  IN IF preds = {} THEN 0
     ELSE LET best == CHOOSE p \in preds :
                        \A q \in preds : LongestChainInto(E, q) <= LongestChainInto(E, p)
          IN 1 + LongestChainInto(E, best)

\* The multiplier a request asks for, as the claim reads the parameter.
RequestedMultiplier(param) == IF param = "3" THEN 3 ELSE 2

\* C25: in every list of scores returned for a positive finite multiplier,
\* each node's base is priority + 2 * (number of edges leaving it) + the
\* length of the longest dependency chain ending at it, inBlitz holds
\* exactly for the members of an active blitz of the session, and final is
\* base * multiplier for those and base for the others.
C25_ScoreFormula ==
  (/\ query.fn = "listScoredNodes"
   /\ query.code = "ok"
   /\ query.blitz_multiplier \in {"undef", "3"})
  => \A i \in DOMAIN query.data :
       LET row == query.data[i]
           base == priority[row.id] + 2 * Cardinality({e \in edges : e.source = row.id})
                     + LongestChainInto(edges, row.id)
           inBlitz == \E b \in BlitzIds : /\ blitzes[b].session = query.session
                                          /\ blitzes[b].status = "active"
                                          /\ row.id \in blitzes[b].node_ids
       IN /\ row.base_score = base
          /\ row.in_blitz = inBlitz
          /\ row.score = Num(IF inBlitz
                             THEN base * RequestedMultiplier(query.blitz_multiplier)
                             ELSE base)

\* C26: the list returned is sorted by final score descending, and every
\* answer the handler can give to the same request in the same state carries
\* the same rows in the same order, whatever order the store returns them in.
C26_SameOrderEveryRun ==
  (query.fn = "listScoredNodes" /\ query.code = "ok")
  => /\ \A i, j \in DOMAIN query.data :
          i < j => Compare(query.data[i], query.data[j]) <= 0
     /\ \A r \in ScoredResponses(nodes, edges, priority, blitzes, query.session,
                                 query.blitz_multiplier) :
          r.data = query.data

\* C27: a request without multiplier is scored with 2.0, one with a positive
\* finite multiplier with that multiplier, and every other one (zero,
\* negative, not a number, infinite) is answered InvalidMultiplier with no
\* scores.
C27_MultiplierValidated ==
  (/\ query.fn = "listScoredNodes"
   /\ query.session # ""
   /\ query.blitz_multiplier # "2abc")
  => /\ query.code = "ok" <=> query.blitz_multiplier \in {"undef", "3"}
     /\ query.code # "ok" => query.code = "InvalidMultiplier" /\ query.data = <<>>
     /\ query.code = "ok"
          => \A i \in DOMAIN query.data :
               query.data[i].in_blitz
                 => query.data[i].blitz_multiplier
                      = Num(RequestedMultiplier(query.blitz_multiplier))

\* The answers of a request whose mutation was applied.
SuccessCodes == {"Created", "Updated", "Deleted"}

\* The caller's request is answered in this step.
Finishes(p) == pc[p] # "done" /\ pc'[p] = "done"

\* C28: while the activity log takes rows, the step that answers a
\* successful mutating request appends one audit event, and no other step
\* of any request appends or removes one: a successful request leaves
\* exactly one event, emitted after its mutation, and a request that fails
\* or is rejected leaves none.
C28_OneEventPerSuccess ==
  [][/\ (~auditDown /\ Finishes(Caller) /\ resp'.code \in SuccessCodes)
          => Len(log') = Len(log) + 1
     /\ log' # log => Finishes(Caller) /\ resp'.code \in SuccessCodes]_vars

\* The mutation of the caller's request is in the store <<N, st, E, lab, B>>.
MutationApplied(p, N, st, E, lab, B) ==
  LET r == loc[p]
  IN CASE r.op = "createEdge" -> Edge(r.session, r.source, r.target, r.type) \in E
       [] r.op = "deleteEdge" -> ~\E e \in E : EdgeKey(e) = r.key
       [] r.op = "deleteNode" ->
            r.id \notin N /\ ~\E e \in E : e.source = r.id \/ e.target = r.id
       [] r.op = "setNodeStatus" -> st[r.id] = r.status
       [] r.op = "createNode" ->
            \E n \in N : SessionOf(n) = r.session /\ lab[n] = r.label /\ st[n] = "pending"
       [] r.op = "updateNode" -> r.patch.label # "undef" => lab[r.id] = r.patch.label
       [] r.op = "createBlitz" -> \E b \in BlitzIds : B[b] = r.row
       [] r.op = "updateBlitz" ->
            /\ r.patch.status # "undef" => B[r.id].status = r.patch.status
            /\ r.patch.members => B[r.id].node_ids = r.patch.node_ids
       [] r.op = "deleteBlitz" -> ~BlitzExists(B, r.id)
       [] OTHER -> FALSE

\* The steps at which a request has applied its mutation and logs it.
LogSteps ==
  {"ce_log", "de_log", "dn_log", "ss_log", "cn_log", "un_log", "bc_log", "bu_log", "bd_log"}

\* C29: while the store refuses the audit rows, no step changes the
\* activity log, and the step of a request that follows its mutation and
\* fails to log it changes nothing in the store and answers success: the
\* mutation is in the store as the request made it.
C29_NoRollback ==
  [][auditDown
       => /\ log' = log
          /\ (pc[Caller] \in LogSteps /\ Finishes(Caller))
               => /\ resp'.code \in SuccessCodes
                  /\ <<nodes, status, completedAt, edges, label, blitzes, priority>>'
                       = <<nodes, status, completedAt, edges, label, blitzes, priority>>
                  /\ MutationApplied(Caller, nodes', status', edges', label', blitzes')]_vars

\* A completion was answered Updated and is stored, with no audit row for
\* it.
C29_Witness ==
  /\ auditDown
  /\ resp = Response("setNodeStatus", "Updated")
  /\ status[2] = "completed"
  /\ completedAt[2] = "set"
  /\ \A i \in DOMAIN log : log[i].action # "status_change"

\* ------------------------------------------------------------------ C30
\* A step that handles a submit event, and a step that handles the end of
\* the request.
SubmitStep == fab'.submits = fab.submits + 1
SettleStep == fab.pending # <<>> /\ fab'.pending = <<>>

\* The step sends exactly one POST, with the trimmed title, and with
\* parentId exactly when a parent is selected.
SendsOnePost ==
  /\ Len(fab'.fetchCalls) = Len(fab.fetchCalls) + 1
  /\ LET body == fab'.fetchCalls[Len(fab'.fetchCalls)]
     IN /\ body.title = Trim(fab.title)
        /\ ("parentId" \in DOMAIN body) <=> (fab.parentId # "")
        /\ ("parentId" \in DOMAIN body) => body.parentId = fab.parentId
  /\ \A i \in 1 .. Len(fab.fetchCalls) : fab'.fetchCalls[i] = fab.fetchCalls[i]

\* The step calls onNodeCreated once with the returned node, does not call
\* onError, and leaves the popover closed with title and parent reset.
ReportsCreated ==
  /\ fab'.onNodeCreated =
       Append(fab.onNodeCreated, CreatedNode(fab.pending[1], Len(fab.fetchCalls)))
  /\ fab'.onError = fab.onError
  /\ ~fab'.isOpen /\ fab'.title = "" /\ fab'.parentId = ""

C31_FailureReported ==
  [][/\ (SettleStep /\ fab'.res \in {"notOk", "rejected", "rejectedValue"}) =>
          /\ Len(fab'.onError) = Len(fab.onError) + 1
          /\ fab'.onError[Len(fab'.onError)].isError
          /\ fab'.onNodeCreated = fab.onNodeCreated
          /\ fab'.isOpen = fab.isOpen /\ fab'.title = fab.title
          /\ fab'.parentId = fab.parentId
     /\ SettleStep => ~fab'.isSubmitting
     /\ (SubmitStep /\ (fab.title \in {"", " "} \/ fab.isSubmitting)) =>
          fab' = [fab EXCEPT !.submits = @ + 1]]_vars

\* A request failed with a value that is no Error while the popover was
\* open: the title is still there, nothing is in flight, and the submit that
\* came while the request was in flight sent nothing.
C31_Witness ==
  /\ fab.res = "rejectedValue" /\ Len(fab.onError) = 1
  /\ fab.onNodeCreated = <<>>
  /\ fab.isOpen /\ fab.title = " a " /\ ~fab.isSubmitting /\ fab.pending = <<>>
  /\ fab.submits = 2 /\ Len(fab.fetchCalls) = 1

\* ------------------------------------------------------------------ C32
\* C32: on every stored graph, graphs with directed cycles of edges that
\* are no dependency edges included, both queries answer, dep_depth with a
\* depth from 0 to 100 and downstream_nodes with rows of depth 1 to 100,
\* at most one row per node.
C32_DepthBounded ==
  /\ query.fn = "dep_depth" => query.result \in 0 .. MaxDepth
  /\ query.fn = "downstream_nodes" =>
       /\ \A r \in query.result : r[1] \in nodes /\ r[2] \in 1 .. MaxDepth
       /\ Cardinality(query.result) <= Cardinality(nodes)

\* downstream_nodes has answered for a node that lies on a directed cycle of
\* edges that are no dependency edges.
C32_Witness ==
  /\ query.fn = "downstream_nodes"
  /\ Reaches(AllPairs({e \in edges : e.type # "dependency"}), query.node, query.node)
  /\ query.result # {}

\* ------------------------------------------------------------------ C33
\* The depth limit a request asks for, for the parameters the claim speaks
\* of: the value when it is positive, none when it is absent or 0.
RequestedDepth(param) ==
  CASE param = "1" -> 1
    [] param = "2" -> 2
    [] OTHER -> MaxDepth

\* C33: a subtree answered for max_depth absent, 0 or positive has as
\* descendants exactly the downstream nodes of the root (the nodes reachable
\* from it by one to MaxDepth edges) whose shortest distance is at most the
\* requested depth, each once with that distance; its edges are exactly the
\* stored edges with both ends among the root and the descendants; total is
\* the number of descendants plus one.
C33_SubtreeExact ==
  (/\ query.fn = "getSubtree"
   /\ query.result.code = "ok"
   /\ query.param \in {"undef", "0", "1", "2"})
  => LET ids == {d.id : d \in query.result.descendants}
         within == {r \in ReachableFrom(edges, query.node) :
                      r[2] <= MaxDepth /\ r[2] <= RequestedDepth(query.param)}
     IN /\ query.result.descendants = {[id |-> r[1], depth |-> r[2]] : r \in within}
        /\ query.result.edges =
             {e \in edges : /\ e.source \in {query.node} \cup ids
                            /\ e.target \in {query.node} \cup ids}
        /\ query.result.total = Cardinality(ids) + 1

\* A subtree cut at depth 1 below which the graph goes on: one descendant
\* returned with the edge to it, a node at distance 2 left out.
C33_Witness ==
  /\ query.fn = "getSubtree" /\ query.param = "1" /\ query.result.code = "ok"
  /\ query.result.total = 2
  /\ Cardinality(query.result.edges) = 1
  /\ \E r \in ReachableFrom(edges, query.node) : r[2] = 2

\* ------------------------------------------------------------------ C34
\* C34: the update that updateNode sends to the store names only fields of
\* the allowed list, never status, completed_at or session_id, and no step
\* of updateNode changes the status or the completion timestamp of a node
\* or the set of nodes; a body that carries no allowed field is answered
\* NoValidFields with the store left as it was.
C34_OnlyAllowedFields ==
  [][/\ (pc'[Caller] = "un_update" /\ pc[Caller] = "idle") =>
          /\ AllowedUpdates(loc'[Caller].patch) # {}
          /\ AllowedUpdates(loc'[Caller].patch) \cap {"status", "completed_at", "session_id"} = {}
     /\ (pc[Caller] = "idle" /\ pc'[Caller] = "done" /\ resp'.code # "NodeNotFound") =>
          /\ resp'.code = "NoValidFields"
          /\ UNCHANGED <<nodes, status, completedAt, edges, label, blitzes, priority, log>>
     /\ UNCHANGED <<nodes, status, completedAt, edges, blitzes, priority>>]_vars

\* updateNode has applied a body that names a new label, the status
\* completed, a completion timestamp and another session, for node 2 whose
\* dependency on node 1 is unmet: the label is set, the node is still
\* pending without timestamp.
C34_Witness ==
  /\ pc[Caller] = "un_log"
  /\ loc[Caller].id = 2
  /\ loc[Caller].patch = [label |-> "b", status |-> "completed", completed_at |-> "set",
                          session_id |-> "s2"]
  /\ label[2] = "b" /\ status[2] = "pending" /\ completedAt[2] = "null"
  /\ Edge("s1", 1, 2, "dependency") \in edges /\ status[1] = "pending"

\* ------------------------------------------------------------------ C35
\* C35: every stored node has a label that is not the empty string.
C35_LabelNotEmpty == \A n \in nodes : label[n] # ""

\* ------------------------------------------------------------------ C36
\* C36: with requests processed one at a time, every dependency edge whose
\* target is a completed node has a completed source.
C36_CompletedDependenciesMet ==
  \A e \in edges :
    (e.type = "dependency" /\ e.target \in nodes /\ status[e.target] = "completed")
    => status[e.source] = "completed"

\* ------------------------------------------------------------------ C37
\* C37: a deleteNode processed on its own on a graph whose dependency
\* subgraph is acyclic leaves it acyclic, whatever edges the re-parenting
\* adds or rewrites.
C37_DeleteKeepsAcyclic ==
  [][(Removed # {} /\ DepAcyclic(edges)) => DepAcyclic(edges')]_vars

\* Node 2 was deleted from a graph of three edges and the dependency edge
\* 1 -> 3 joins its parent to its child, beside an edge from 3 back to 1.
C37_Witness ==
  /\ resp = Response("deleteNode", "Deleted")
  /\ nodes = NodeIds \ {2}
  /\ Len(log) = 4
  /\ edges = {Edge("s1", 1, 3, "dependency"), Edge("s1", 3, 1, "hierarchy")}

\* ------------------------------------------------------------------ C38
\* C38: the descendants of a subtree never contain its root, and total is
\* the number of distinct nodes among the root and the descendants.
C38_RootNotDescendant ==
  (query.fn = "getSubtree" /\ query.result.code = "ok")
  => LET ids == {d.id : d \in query.result.descendants}
     IN /\ query.node \notin ids
        /\ query.result.total = Cardinality({query.node} \cup ids)

\* ------------------------------------------------------------------ C39
\* C39: every stored blitz in status active has a start time, and every
\* stored blitz in status completed or abandoned has a completion time.
C39_StatusHasTimestamp ==
  \A b \in BlitzIds :
    /\ blitzes[b].status = "active" => blitzes[b].started_at = "set"
    /\ blitzes[b].status \in {"completed", "abandoned"} => blitzes[b].completed_at = "set"

\* ------------------------------------------------------------------ C40
\* C40: every member of a stored blitz is a stored node of the session of
\* the blitz.
C40_MembersExistInSession ==
  \A b \in BlitzIds :
    BlitzExists(blitzes, b)
    => \A n \in blitzes[b].node_ids : n \in nodes /\ SessionOf(n) = blitzes[b].session

\* C3: for every graph and every pair of distinct nodes, wouldCreateCycle
\* answers TRUE exactly when a path of one or more dependency edges of the
\* session leads from the target to the source.
C3_CycleCheckIsReachability ==
  query.fn = "wouldCreateCycle"
  => query.result = Reaches(DepPairs(edges, query.session), query.target, query.source)

\* The check answered TRUE over a path of two dependency edges, with no
\* direct edge from the target to the source.
C3_Witness ==
  /\ query.fn = "wouldCreateCycle"
  /\ query.result = TRUE
  /\ <<query.target, query.source>> \notin AllPairs(edges)
  /\ Cardinality(edges) = 3

\* C2: when two callers' createEdge requests interleave, no state holds a
\* dependency cycle.
C2_AcyclicUnderRace == DepAcyclic(edges)

\* C9: under any interleaving of two requests, every stored edge has its
\* source and its target among the stored nodes, both in the edge's session.
C9_EdgesHaveEndpoints ==
  \A e \in edges :
    /\ e.source \in nodes /\ e.target \in nodes
    /\ SessionOf(e.source) = e.session /\ SessionOf(e.target) = e.session

\* A node was deleted between a createEdge's node lookups and its insert: the
\* insert was refused by the store, and edges remain.
C9_Witness ==
  /\ resp = Response("createEdge", "Failed")
  /\ nodes # NodeIds
  /\ edges # {}

====
